---------------------------- MODULE Spec2Model ----------------------------
(***************************************************************************)
(* Model of the context window manager and of the snippet editor of the    *)
(* assistant (src/main.py).                                                *)
(*                                                                         *)
(* A message is a record.  Its text is abstracted to its length: clen is   *)
(* len(content), esc is the number of extra characters repr() needs for    *)
(* the content (escaped newlines, quotes), so that both len(content) and   *)
(* len(str(msg)) are computed the way the code computes them.              *)
(*   role  : "system" | "user" | "assistant" | "tool"                      *)
(*   kind  : system: "prompt" (SYSTEM_PROMPT), "file" (content starts with *)
(*           the marker "User added file '<path>'"), "info" (any other);   *)
(*           tool: "named" (has a "name" key, main_loop) or "plain";       *)
(*           user / assistant: "text"                                      *)
(*   path  : the path of a file context, "" otherwise                      *)
(*   calls : the ids of the message's tool_calls (the key is absent or the *)
(*           list is empty: << >>)                                         *)
(*   tcid  : tool_call_id of a tool message, "" otherwise                  *)
(***************************************************************************)
EXTENDS Integers, Sequences, FiniteSets, TLC

VARIABLES history, pc, pending, held, round, loop, tr, ad,
          content, exists, fuzzy, snippet, newSnippet, score, edit,
          finder, request, access, stream, trPrev, added

vars == <<history, pc, pending, held, round, loop, tr, ad,
          content, exists, fuzzy, snippet, newSnippet, score, edit,
          finder, request, access, stream, trPrev, added>>

convVars == <<history, pc, pending, held, round, loop, tr, ad, added>>
editVars == <<content, exists, fuzzy, snippet, newSnippet, score, edit>>
findVars == <<finder>>
\* the state of the tools that work outside the conversation
pathVars == <<request, access>>
\* the state of the consumer of one completion stream
streamVars == <<stream>>
\* the record of the call of smart_truncate_history before the last one
truncVars == <<trPrev>>
toolVars == <<editVars, findVars, pathVars, streamVars, truncVars>>

---------------------------------------------------------------------------
(* Configuration (src/main.py, section "Configuration with fallbacks").    *)

ESTIMATED_MAX_TOKENS == 66000
\* the two thresholds are fractions in the code (0.8 and 0.9); they are kept
\* here in tenths so that  tokens < MAX * 0.8  is  tokens * 10 < MAX * 8.
CONTEXT_WARNING_THRESHOLD == 8
AGGRESSIVE_TRUNCATION_THRESHOLD == 9
\* max_history_messages and max_context_files are configuration values
\* (defaults 50 and 5); the model runs a session configured with small ones.
MAX_HISTORY_MESSAGES == 5
MAX_CONTEXT_FILES == 2
MIN_FUZZY_SCORE == 80
MIN_EDIT_SCORE == 85
max_continuation_rounds == 5

\* Bounds of the model.
MaxLog == 7
MaxContent == 4
MaxSnippet == 2
BigLen == 105400
HugePromptLen == 240000
MaxFiles == 3
MaxParts == 3
MaxTurnStart == 4
MaxFragments == 3
MaxGlobalLog == 3

---------------------------------------------------------------------------
(* Messages.                                                               *)

Msg(r, k, n, e, p, c, t) ==
    [role |-> r, kind |-> k, clen |-> n, esc |-> e, path |-> p,
     calls |-> c, tcid |-> t]

\* {"role": "system", "content": SYSTEM_PROMPT}
SystemPrompt(n) == Msg("system", "prompt", n, 0, "", <<>>, "")

\* the directory summary and the runtime description appended by main()
InfoMsg(n) == Msg("system", "info", n, 0, "", <<>>, "")

\* marker = "User added file '<path>'"; content = marker + ". Content:\n\n" + text
MarkerLen(p) == Len("User added file '") + Len(p) + 1
FileContextMsg(p, n) ==
    Msg("system", "file", MarkerLen(p) + Len(". Content:") + 2 + n, 0, p, <<>>, "")

UserMsg(c) == Msg("user", "text", c.clen, c.esc, "", <<>>, "")
AssistantMsg(c, calls) == Msg("assistant", "text", c.clen, c.esc, "", calls, "")
ToolMsg(k, c, id) == Msg("tool", k, c.clen, c.esc, "", <<>>, id)

\* Representative texts delivered by the user, the service and the tools: a
\* short line, and a long multi-line text (its newlines are escaped by repr).
Short == [clen |-> 2, esc |-> 0]
Long == [clen |-> BigLen, esc |-> 120]
Contents == {Short, Long}

ToolName == "edit_file"
ToolArgs == "{\"file_path\": \"a.py\"}"
Paths == {"/p/a.py", "/p/b.py", "/p/c.py"}
\* the lengths of the files: a small one, a large one, the longest one that
\* add_file_context_smartly accepts and the shortest one it rejects
FileLens == {100, 60000, 211203, 211204}
\* the files of the project and the lengths their text can have when read
Files ==
    [path : {"/p/a.py"}, n : {100, 60000, 211204}]
      \cup {[path |-> "/p/b.py", n |-> 100], [path |-> "/p/c.py", n |-> 211203]}

---------------------------------------------------------------------------
(* Token estimation.                                                       *)

RECURSIVE SumSeq(_)
SumSeq(s) == IF s = <<>> THEN 0 ELSE Head(s) + SumSeq(Tail(s))

\* len(str(tool_calls)): "[" + ", ".join(repr(call)) + "]", each call being
\* {'id': '..', 'type': 'function', 'function': {'name': '..', 'arguments': '..'}}
CallReprLen(id) ==
    Len("{'id': '', 'type': 'function', 'function': {'name': '', 'arguments': ''}}")
    + Len(id) + Len(ToolName) + Len(ToolArgs)
ToolCallsReprLen(calls) ==
    2 + SumSeq([i \in 1..Len(calls) |-> CallReprLen(calls[i])])
      + 2 * (Len(calls) - 1)

\* estimate_token_usage, the cost of one message
MsgTokens(m) ==
    (m.clen \div 4)
    + (IF m.calls # <<>> THEN ToolCallsReprLen(m.calls) \div 4 ELSE 0)
    + (IF m.tcid # "" THEN 10 ELSE 0)

\* estimate_token_usage, the total
estimate_token_usage(h) == SumSeq([i \in 1..Len(h) |-> MsgTokens(h[i])])

\* len(str(msg)) of a non-system message, as used by the backward walk
StrLen(m) ==
    CASE m.role = "user" ->
           Len("{'role': 'user', 'content': ''}") + m.clen + m.esc
      [] m.role = "assistant" ->
           Len("{'role': 'assistant', 'content': ''}") + m.clen + m.esc
           + (IF m.calls # <<>>
                THEN Len(", 'tool_calls': ") + ToolCallsReprLen(m.calls) ELSE 0)
      [] m.role = "tool" /\ m.kind = "named" ->
           Len("{'role': 'tool', 'tool_call_id': '', 'name': '', 'content': ''}")
           + Len(m.tcid) + Len(ToolName) + m.clen + m.esc
      [] OTHER ->
           Len("{'role': 'tool', 'content': '', 'tool_call_id': ''}")
           + Len(m.tcid) + m.clen + m.esc
StrTokens(m) == StrLen(m) \div 4

\* get_context_usage_info: the two flags
approaching_limit(g) ==
    estimate_token_usage(g) * 10 > ESTIMATED_MAX_TOKENS * CONTEXT_WARNING_THRESHOLD
critical_limit(g) ==
    estimate_token_usage(g) * 10 > ESTIMATED_MAX_TOKENS * AGGRESSIVE_TRUNCATION_THRESHOLD


---------------------------------------------------------------------------
(* smart_truncate_history.  Python lists hold references, so the lists the *)
(* function builds are modelled as sequences of positions of the argument. *)

IsSystem(m) == m.role = "system"

\* the positions, from i on, of the system messages (sys) or of the others
RECURSIVE Positions(_, _, _)
Positions(h, sys, i) ==
    IF i > Len(h) THEN <<>>
    ELSE (IF IsSystem(h[i]) = sys THEN <<i>> ELSE <<>>) \o Positions(h, sys, i + 1)
\* "User added file" in msg["content"]
IsFileContext(m) == m.role = "system" /\ m.kind = "file"

\* list.index(x): the first position holding a message equal to x
ListIndex(h, ps, x) ==
    CHOOSE i \in 1..Len(ps) : h[ps[i]] = x /\ \A j \in 1..(i - 1) : h[ps[j]] # x

\* file_contexts_with_size.sort(key=lambda x: (x[1], -file_contexts.index(x[0])))
\* a stable sort: equal keys keep their order
SortsBefore(h, fc, a, b) ==
    LET sa == h[fc[a]].clen
        sb == h[fc[b]].clen
        ia == ListIndex(h, fc, h[fc[a]])
        ib == ListIndex(h, fc, h[fc[b]])
    IN  \/ sa < sb
        \/ sa = sb /\ ia > ib
        \/ sa = sb /\ ia = ib /\ a < b
\* the file contexts, were they left in the order of the log
SortedFileContextsUnsorted(h, fc) == fc
SortedFileContexts(h, fc) ==
    [r \in 1..Len(fc) |->
        fc[CHOOSE a \in 1..Len(fc) :
              Cardinality({b \in 1..Len(fc) : SortsBefore(h, fc, b, a)}) = r - 1]]

\* for msg, size in file_contexts_with_size[:3]: keep while the sum fits, else break
RECURSIVE KeepFileContexts(_, _, _, _, _, _)
KeepFileContexts(h, sorted, k, kept, tokens, maxTokens) ==
    IF k > Len(sorted) \/ k > 3 THEN kept
    ELSE LET msg_tokens == h[sorted[k]].clen \div 4
         IN  IF tokens + msg_tokens <= maxTokens
               THEN KeepFileContexts(h, sorted, k + 1, Append(kept, sorted[k]),
                                     tokens + msg_tokens, maxTokens)
               ELSE kept

\* the start of the run of tool messages that ends at position i of other
RECURSIVE ToolRunStart(_, _, _)
ToolRunStart(h, other, i) ==
    IF i >= 1 /\ h[other[i]].role = "tool" THEN ToolRunStart(h, other, i - 1) ELSE i

\* the walk, were it to keep the tool messages of a group without the
\* assistant message
RECURSIVE WalkDropsAssistant(_, _, _, _, _, _)
WalkDropsAssistant(h, other, i, keep, count, remaining) ==
    IF ~(i >= 1 /\ count < remaining) THEN keep
    ELSE
      LET cur == h[other[i]] IN
      IF cur.role = "tool"
        THEN LET i2 == ToolRunStart(h, other, i)
                 tool_sequence == SubSeq(other, i2 + 1, i)
                 tool_sequence_tokens ==
                     SumSeq([j \in 1..Len(tool_sequence) |-> StrTokens(h[tool_sequence[j]])])
                 hasAssistant == /\ i2 >= 1
                                 /\ h[other[i2]].role = "assistant"
                                 /\ h[other[i2]].calls # <<>>
                 assistant_tokens == IF hasAssistant THEN StrTokens(h[other[i2]]) ELSE 0
                 i3 == IF hasAssistant THEN i2 - 1 ELSE i2
             IN  IF count + tool_sequence_tokens + assistant_tokens <= remaining
                   THEN WalkDropsAssistant(h, other, i3,
                             tool_sequence \o keep,
                             count + assistant_tokens + tool_sequence_tokens, remaining)
                   ELSE keep
        ELSE IF count + StrTokens(cur) <= remaining
               THEN WalkDropsAssistant(h, other, i - 1, <<other[i]>> \o keep,
                         count + StrTokens(cur), remaining)
               ELSE keep

\* the walk, were it to keep a user or assistant message without testing that
\* it fits
RECURSIVE WalkIgnoresBudget(_, _, _, _, _, _)
WalkIgnoresBudget(h, other, i, keep, count, remaining) ==
    IF ~(i >= 1 /\ count < remaining) THEN keep
    ELSE
      LET cur == h[other[i]] IN
      IF cur.role = "tool"
        THEN LET i2 == ToolRunStart(h, other, i)
                 tool_sequence == SubSeq(other, i2 + 1, i)
                 tool_sequence_tokens ==
                     SumSeq([j \in 1..Len(tool_sequence) |-> StrTokens(h[tool_sequence[j]])])
                 hasAssistant == /\ i2 >= 1
                                 /\ h[other[i2]].role = "assistant"
                                 /\ h[other[i2]].calls # <<>>
                 assistant_tokens == IF hasAssistant THEN StrTokens(h[other[i2]]) ELSE 0
                 i3 == IF hasAssistant THEN i2 - 1 ELSE i2
             IN  IF count + tool_sequence_tokens + assistant_tokens <= remaining
                   THEN \* keep_messages.insert(0, assistant_msg);
                        \* keep_messages = tool_sequence + keep_messages
                        WalkIgnoresBudget(h, other, i3,
                             tool_sequence
                               \o (IF hasAssistant THEN <<other[i2]>> ELSE <<>>)
                               \o keep,
                             count + assistant_tokens + tool_sequence_tokens, remaining)
                   ELSE keep
        ELSE WalkIgnoresBudget(h, other, i - 1, <<other[i]>> \o keep,
                               count + StrTokens(cur), remaining)

\* the walk, were it to pass over a message or a group that does not fit and
\* go on with the older ones
RECURSIVE WalkSkipsAhead(_, _, _, _, _, _)
WalkSkipsAhead(h, other, i, keep, count, remaining) ==
    IF ~(i >= 1 /\ count < remaining) THEN keep
    ELSE
      LET cur == h[other[i]] IN
      IF cur.role = "tool"
        THEN LET i2 == ToolRunStart(h, other, i)
                 tool_sequence == SubSeq(other, i2 + 1, i)
                 tool_sequence_tokens ==
                     SumSeq([j \in 1..Len(tool_sequence) |-> StrTokens(h[tool_sequence[j]])])
                 hasAssistant == /\ i2 >= 1
                                 /\ h[other[i2]].role = "assistant"
                                 /\ h[other[i2]].calls # <<>>
                 assistant_tokens == IF hasAssistant THEN StrTokens(h[other[i2]]) ELSE 0
                 i3 == IF hasAssistant THEN i2 - 1 ELSE i2
             IN  IF count + tool_sequence_tokens + assistant_tokens <= remaining
                   THEN \* keep_messages.insert(0, assistant_msg);
                        \* keep_messages = tool_sequence + keep_messages
                        WalkSkipsAhead(h, other, i3,
                             tool_sequence
                               \o (IF hasAssistant THEN <<other[i2]>> ELSE <<>>)
                               \o keep,
                             count + assistant_tokens + tool_sequence_tokens, remaining)
                   ELSE WalkSkipsAhead(h, other, i3, keep, count, remaining)
        ELSE IF count + StrTokens(cur) <= remaining
               THEN WalkSkipsAhead(h, other, i - 1, <<other[i]>> \o keep,
                         count + StrTokens(cur), remaining)
               ELSE WalkSkipsAhead(h, other, i - 1, keep, count, remaining)

\* the backward walk over other_messages; the result is keep_messages
RECURSIVE Walk(_, _, _, _, _, _)
Walk(h, other, i, keep, count, remaining) ==
    IF ~(i >= 1 /\ count < remaining) THEN keep
    ELSE
      LET cur == h[other[i]] IN
      IF cur.role = "tool"
        THEN LET i2 == ToolRunStart(h, other, i)
                 tool_sequence == SubSeq(other, i2 + 1, i)
                 tool_sequence_tokens ==
                     SumSeq([j \in 1..Len(tool_sequence) |-> StrTokens(h[tool_sequence[j]])])
                 hasAssistant == /\ i2 >= 1
                                 /\ h[other[i2]].role = "assistant"
                                 /\ h[other[i2]].calls # <<>>
                 assistant_tokens == IF hasAssistant THEN StrTokens(h[other[i2]]) ELSE 0
                 i3 == IF hasAssistant THEN i2 - 1 ELSE i2
             IN  IF count + tool_sequence_tokens + assistant_tokens <= remaining
                   THEN \* keep_messages.insert(0, assistant_msg);
                        \* keep_messages = tool_sequence + keep_messages
                        Walk(h, other, i3,
                             tool_sequence
                               \o (IF hasAssistant THEN <<other[i2]>> ELSE <<>>)
                               \o keep,
                             count + assistant_tokens + tool_sequence_tokens, remaining)
                   ELSE keep
        ELSE IF count + StrTokens(cur) <= remaining
               THEN Walk(h, other, i - 1, <<other[i]>> \o keep,
                         count + StrTokens(cur), remaining)
               ELSE keep

\* target_tokens, from the flags of get_context_usage_info (global history g)
TargetTokens(g) ==
    IF critical_limit(g) THEN (ESTIMATED_MAX_TOKENS * 6) \div 10
    ELSE IF approaching_limit(g) THEN (ESTIMATED_MAX_TOKENS * 7) \div 10
    ELSE (ESTIMATED_MAX_TOKENS * 8) \div 10

\* the early return, were the length test strict
NoTruncationStrict(g, h, max_messages) ==
    /\ estimate_token_usage(g) * 10 < ESTIMATED_MAX_TOKENS * CONTEXT_WARNING_THRESHOLD
    /\ Len(h) < max_messages

\* the early return: no truncation
NoTruncation(g, h, max_messages) ==
    /\ estimate_token_usage(g) * 10 < ESTIMATED_MAX_TOKENS * CONTEXT_WARNING_THRESHOLD
    /\ Len(h) <= max_messages

\* g is the global conversation_history read by get_context_usage_info, h the
\* argument.  The result records the positions of h that were kept
\* (sys: essential_system, keep: keep_messages) and the returned list (out).
smart_truncate_history(g, h, max_messages) ==
    IF NoTruncation(g, h, max_messages)
      THEN [triggered |-> FALSE, inp |-> h, tokens |-> estimate_token_usage(g),
            target |-> 0, sys |-> <<>>, keep |-> <<>>, out |-> h]
      ELSE
        LET target_tokens == TargetTokens(g)
            system_messages == Positions(h, TRUE, 1)
            other_messages == Positions(h, FALSE, 1)
            first == IF system_messages # <<>> THEN <<Head(system_messages)>> ELSE <<>>
            rest == IF system_messages # <<>> THEN Tail(system_messages) ELSE <<>>
            file_contexts == SelectSeq(rest, LAMBDA p : IsFileContext(h[p]))
            kept_file_contexts ==
                KeepFileContexts(h, SortedFileContexts(h, file_contexts), 1, <<>>, 0,
                                 target_tokens \div 4)
            essential_system == first \o kept_file_contexts
            system_tokens ==
                estimate_token_usage([i \in 1..Len(essential_system) |-> h[essential_system[i]]])
            remaining_tokens == target_tokens - system_tokens
            keep_messages ==
                Walk(h, other_messages, Len(other_messages), <<>>, 0, remaining_tokens)
            result == essential_system \o keep_messages
        IN  [triggered |-> TRUE, inp |-> h, tokens |-> estimate_token_usage(g),
             target |-> target_tokens, sys |-> essential_system,
             keep |-> keep_messages,
             out |-> [i \in 1..Len(result) |-> h[result[i]]]]

\* no truncation has been recorded
NoTr ==
    [triggered |-> FALSE, inp |-> <<>>, tokens |-> 0, target |-> 0,
     sys |-> <<>>, keep |-> <<>>, out |-> <<>>]


---------------------------------------------------------------------------
(* add_file_context_smartly and ensure_file_in_context.                    *)

\* the loop that counts the tool responses "after" the last message: it runs
\* from the end of the list and stops at the first message equal to last_msg
RECURSIVE ResponsesAfter(_, _, _, _)
ResponsesAfter(h, i, last_msg, ids) ==
    IF i < 1 THEN 0
    ELSE IF h[i].role = "tool" /\ h[i].tcid \in ids
           THEN 1 + ResponsesAfter(h, i - 1, last_msg, ids)
    ELSE IF h[i] = last_msg THEN 0
    ELSE ResponsesAfter(h, i - 1, last_msg, ids)

CallIdSet(m) == {m.calls[i] : i \in 1..Len(m.calls)}

\* the deferral test, were it never to defer
DeferredNever(h) == FALSE

\* the deferral test on the last message of the list
Deferred(h) ==
    /\ h # <<>>
    /\ h[Len(h)].role = "assistant"
    /\ h[Len(h)].calls # <<>>
    /\ ResponsesAfter(h, Len(h), h[Len(h)], CallIdSet(h[Len(h)]))
         < Cardinality(CallIdSet(h[Len(h)]))

\* the marker test, were it never to find the marker
HasMarkerNever(m, p) == FALSE

\* msg["role"] == "system" and marker in msg["content"]
HasMarker(m, p) == m.role = "system" /\ m.kind = "file" /\ m.path = p

\* file_contexts.sort(key=lambda x: x[2], reverse=True), a stable sort
SortBySizeDesc(fcs) ==
    LET Before(a, b) == \/ fcs[a].clen > fcs[b].clen
                        \/ fcs[a].clen = fcs[b].clen /\ a < b
    IN  [r \in 1..Len(fcs) |->
           fcs[CHOOSE a \in 1..Len(fcs) :
                 Cardinality({b \in 1..Len(fcs) : Before(b, a)}) = r - 1]]

\* the eviction, were it to remove the oldest file context in every state
RECURSIVE EvictOldest(_, _, _, _)
EvictOldest(h, fcs, approaching, max_context_files) ==
    IF Len(fcs) < max_context_files \/ fcs = <<>> THEN h
    ELSE EvictOldest(SelectSeq(h, LAMBDA m : m # Head(fcs)), Tail(fcs),
                     approaching, max_context_files)

\* while len(file_contexts) >= max_context_files: pop one, remove it from the list
RECURSIVE Evict(_, _, _, _)
Evict(h, fcs, approaching, max_context_files) ==
    IF Len(fcs) < max_context_files \/ fcs = <<>> THEN h
    ELSE LET sorted == IF approaching THEN SortBySizeDesc(fcs) ELSE fcs
             to_remove == Head(sorted)
         IN  Evict(SelectSeq(h, LAMBDA m : m # to_remove), Tail(sorted),
                   approaching, max_context_files)

\* the insertion point, were it to start at the front of the list
RECURSIVE InsertionPointFront(_, _)
InsertionPointFront(h, i) ==
    IF i < 1 THEN 1
    ELSE IF h[i].role = "user" THEN i
    ELSE InsertionPointFront(h, i - 1)

\* the insertion point, were it the first user message of the list
InsertionPointFirstUser(h, i) ==
    IF \E k \in 1..i : h[k].role = "user"
      THEN CHOOSE k \in 1..i : h[k].role = "user" /\ \A j \in 1..(k - 1) : h[j].role # "user"
      ELSE Len(h) + 1

\* the position of the last user message, or len + 1
RECURSIVE InsertionPoint(_, _)
InsertionPoint(h, i) ==
    IF i < 1 THEN Len(h) + 1
    ELSE IF h[i].role = "user" THEN i
    ELSE InsertionPoint(h, i - 1)

InsertAt(h, i, m) == SubSeq(h, 1, i - 1) \o <<m>> \o SubSeq(h, i, Len(h))

\* the call, were the existing context of the file left in the list
add_file_context_keeping_old(g, h, p, n, max_context_files) ==
    IF n \div 4 > (ESTIMATED_MAX_TOKENS * 8) \div 10
      THEN [ok |-> FALSE, log |-> h]
    ELSE IF Deferred(h)
      THEN [ok |-> TRUE, log |-> h]
    ELSE
      LET file_contexts == SelectSeq(h, IsFileContext)
          h2 == Evict(h, file_contexts, approaching_limit(g), max_context_files)
      IN  [ok |-> TRUE,
           log |-> InsertAt(h2, InsertionPoint(h2, Len(h2)), FileContextMsg(p, n))]

\* the call, were a file of exactly 80% of the window rejected too
add_file_context_rejecting_at_limit(g, h, p, n, max_context_files) ==
    IF n \div 4 >= (ESTIMATED_MAX_TOKENS * 8) \div 10
      THEN [ok |-> FALSE, log |-> h]
    ELSE IF Deferred(h)
      THEN [ok |-> TRUE, log |-> h]
    ELSE
      LET h1 == SelectSeq(h, LAMBDA m : ~HasMarker(m, p))
          file_contexts == SelectSeq(h1, IsFileContext)
          h2 == Evict(h1, file_contexts, approaching_limit(g), max_context_files)
      IN  [ok |-> TRUE,
           log |-> InsertAt(h2, InsertionPoint(h2, Len(h2)), FileContextMsg(p, n))]

\* g: the global list read by get_context_usage_info; h: the list argument;
\* n = len(content).  ok is the returned flag, log the list afterwards.
add_file_context_smartly(g, h, p, n, max_context_files) ==
    IF n \div 4 > (ESTIMATED_MAX_TOKENS * 8) \div 10
      THEN [ok |-> FALSE, log |-> h]
    ELSE IF Deferred(h)
      THEN [ok |-> TRUE, log |-> h]
    ELSE
      LET h1 == SelectSeq(h, LAMBDA m : ~HasMarker(m, p))
          file_contexts == SelectSeq(h1, IsFileContext)
          h2 == Evict(h1, file_contexts, approaching_limit(g), max_context_files)
      IN  [ok |-> TRUE,
           log |-> InsertAt(h2, InsertionPoint(h2, Len(h2)), FileContextMsg(p, n))]

\* no call of add_file_context_smartly has been recorded
NoAd ==
    [called |-> FALSE, p |-> "", n |-> 0, inp |-> <<>>, approaching |-> FALSE,
     ok |-> FALSE, out |-> <<>>, twice |-> FALSE]

\* the record of a call on the log h with the result r; last is the record
\* before it: twice tells that this call repeats the call before it, on the
\* log that call left
AddRecord(last, h, p, n, r) ==
    [called |-> TRUE, p |-> p, n |-> n, inp |-> h,
     approaching |-> approaching_limit(h), ok |-> r.ok, out |-> r.log,
     twice |-> last.called /\ last.p = p /\ last.n = n /\ last.out = h]

\* added lists the paths of the file-context entries of the log in the order
\* in which the entries were inserted, the earliest first.  The program keeps
\* no such list: it is kept here to tell which entry is the oldest.
StillAdded(order, h) ==
    SelectSeq(order, LAMBDA q : \E i \in 1..Len(h) : IsFileContext(h[i]) /\ h[i].path = q)
\* the order after a call of add_file_context_smartly for p on h with result r
AddedAfter(order, h, p, r) ==
    IF r.ok /\ ~Deferred(h)
      THEN Append(StillAdded(SelectSeq(order, LAMBDA q : q # p), r.log), p)
      ELSE order

\* n is the length of the text read_local_file returns for the path
ensure_file_in_context(h, p, n) ==
    IF ~\E i \in 1..Len(h) : HasMarker(h[i], p)
      THEN add_file_context_smartly(h, h, p, n, MAX_CONTEXT_FILES)
      ELSE [ok |-> TRUE, log |-> h]


---------------------------------------------------------------------------
(* The session: main() runs MistralAssistant.main_loop; main_loop() is the *)
(* module-level loop.  Both work on the global conversation_history.       *)
(*   pc = "prompt"   : waiting for the user's input (the turn boundary)    *)
(*        "call"     : the user message is appended, the completion runs   *)
(*        "tools"    : executing the tool calls of the last assistant      *)
(*        "cont"     : the continuation rounds                             *)
(*        "truncate" : the exchange is over, smart truncation is next      *)
(*        "r1tools"  : /r is executing the reasoner's tool calls           *)

NoMsg == Msg("none", "none", 0, 0, "", <<>>, "")
\* no call of apply_fuzzy_diff_edit has been made
NoEdit == [stage |-> "none", outcome |-> "none", best |-> <<>>, updated |-> <<>>,
           before |-> <<>>]

\* the valid tool calls of one completion: none, one, or two with distinct ids
CallLists == {<<>>, <<"D681PevKs">>, <<"a9Qm2LxTz", "D681PevKs">>}

\* the texts of the assistant
Replies == {Short}

\* an edit_file call reads the file of its arguments and answers with a short
\* line; any other tool does not touch the log and answers with a text
ToolEffects ==
    {[path |-> "", n |-> 0, out |-> c] : c \in Contents}
      \cup {[path |-> f.path, n |-> f.n, out |-> Short] :
               f \in {g \in Files : g.path = "/p/a.py"}}

ConvInit ==
    /\ loop \in {"main_loop", "MistralAssistant"}
    /\ \E n \in {400, HugePromptLen} :
         history = IF loop = "MistralAssistant"
                     THEN <<SystemPrompt(n), InfoMsg(600), InfoMsg(120)>>
                     ELSE <<SystemPrompt(n)>>
    /\ pc = "prompt"
    /\ pending = <<>>
    /\ held = NoMsg
    /\ round = 0
    /\ tr = NoTr
    /\ ad = NoAd
    /\ added = <<>>

\* no call of find_best_matching_file has been made
NoFind == [avail |-> FALSE, cands |-> <<>>, min_score |-> 0, called |-> FALSE,
           result |-> 0]
FindIdle == finder = NoFind

\* no command or tool call that names a path is being served
NoRequest == [entry |-> "none", abs |-> FALSE, parts |-> <<>>, done |-> FALSE]
PathIdle == request = NoRequest /\ access = {}

\* no completion stream is being consumed
NoStream == [loop |-> "none", stage |-> "none", seen |-> <<>>,
             accumulated_tool_calls |-> <<>>, valid_tool_calls |-> <<>>,
             tool_calls |-> <<>>, executed |-> <<>>]
StreamIdle == stream = NoStream
\* no earlier call of smart_truncate_history is remembered
TruncIdle == trPrev = NoTr

EditIdle ==
    /\ content = <<>>
    /\ exists = FALSE
    /\ fuzzy = FALSE
    /\ snippet = <<>>
    /\ newSnippet = <<>>
    /\ score = <<>>
    /\ edit = NoEdit

\* conversation_history.append({"role": "user", "content": user_input})
UserTurn ==
    /\ pc = "prompt"
    /\ Len(history) < MaxLog
    /\ \E c \in Contents : history' = Append(history, UserMsg(c))
    /\ pc' = "call"
    /\ tr' = NoTr
    /\ ad' = NoAd
    /\ UNCHANGED <<pending, held, round, loop, added, toolVars>>

\* the first completion of a turn: the assistant message is appended with its
\* valid tool calls.  process_streaming_response of MistralAssistant never
\* accumulates tool calls.
AssistantReply ==
    /\ pc = "call"
    /\ Len(history) < MaxLog
    /\ \E c \in Replies, calls \in CallLists :
         /\ loop = "MistralAssistant" => calls = <<>>
         /\ history' = Append(history, AssistantMsg(c, calls))
         /\ pending' = calls
         /\ pc' = IF calls # <<>> THEN "tools" ELSE "truncate"
    /\ round' = 0
    /\ ad' = NoAd
    /\ UNCHANGED <<held, loop, tr, added, toolVars>>

\* execute_function_call_dict for the next call, then the tool message; after
\* the last call of a turn the loop  while current_round < max_continuation_rounds
\* either runs another round or ends
ToolExec ==
    /\ pc \in {"tools", "r1tools"}
    /\ pending # <<>>
    /\ Len(history) < MaxLog
    /\ \E e \in ToolEffects :
         LET h1 == IF e.path = "" THEN history
                   ELSE ensure_file_in_context(history, e.path, e.n).log
             adds == /\ e.path # ""
                     /\ ~\E i \in 1..Len(history) : HasMarker(history[i], e.path)
             kind == IF pc = "tools" THEN "named" ELSE "plain"
             h2 == Append(h1, ToolMsg(kind, e.out, Head(pending)))
         IN  /\ Len(h1) < MaxLog
             /\ ad' = IF adds
                        THEN AddRecord(ad, history, e.path, e.n,
                                       add_file_context_smartly(history, history, e.path,
                                                                e.n, MAX_CONTEXT_FILES))
                        ELSE NoAd
             /\ added' = IF adds
                           THEN AddedAfter(added, history, e.path,
                                           add_file_context_smartly(history, history, e.path,
                                                                    e.n, MAX_CONTEXT_FILES))
                           ELSE added
             /\ IF pc = "r1tools" /\ Tail(pending) = <<>>
                  THEN /\ Len(h2) < MaxLog
                       /\ history' = Append(h2, held)
                       /\ held' = NoMsg
                       /\ pc' = "prompt"
                  ELSE /\ history' = h2
                       /\ held' = held
                       /\ pc' = IF Tail(pending) # <<>> THEN pc
                                ELSE IF round < max_continuation_rounds THEN "cont"
                                ELSE "truncate"
    /\ pending' = Tail(pending)
    /\ UNCHANGED <<round, loop, tr, toolVars>>

\* one continuation round: while current_round < max_continuation_rounds
ContinuationRound ==
    /\ pc = "cont"
    /\ round < max_continuation_rounds
    /\ Len(history) < MaxLog
    /\ round' = round + 1
    /\ \E c \in Replies, calls \in CallLists :
         /\ history' = Append(history, AssistantMsg(c, calls))
         /\ pending' = calls
         /\ pc' = IF calls # <<>> THEN "tools" ELSE "truncate"
    /\ ad' = NoAd
    /\ UNCHANGED <<held, loop, tr, added, toolVars>>

\* conversation_history = smart_truncate_history(conversation_history, MAX_HISTORY_MESSAGES)
Truncate ==
    /\ pc = "truncate"
    /\ tr' = smart_truncate_history(history, history, MAX_HISTORY_MESSAGES)
    /\ history' = tr'.out
    /\ added' = StillAdded(added, history')
    /\ pc' = "prompt"
    /\ round' = 0
    /\ ad' = NoAd
    /\ UNCHANGED <<pending, held, loop, toolVars>>

\* KeyboardInterrupt, or an exception of the completion call, inside a turn:
\* the handlers of the loop print a message and the loop prompts again
Interrupt ==
    /\ pc # "prompt"
    /\ pc' = "prompt"
    /\ pending' = <<>>
    /\ held' = NoMsg
    /\ round' = 0
    /\ tr' = NoTr
    /\ ad' = NoAd
    /\ UNCHANGED <<history, loop, added, toolVars>>

\* /add <file>: try_handle_add_command
AddCommand ==
    /\ pc = "prompt"
    /\ Len(history) < MaxLog
    /\ \E f \in Files :
         LET r == add_file_context_smartly(history, history, f.path, f.n, MAX_CONTEXT_FILES)
         IN  /\ history' = r.log
             /\ ad' = AddRecord(ad, history, f.path, f.n, r)
             /\ added' = AddedAfter(added, history, f.path, r)
    /\ tr' = NoTr
    /\ UNCHANGED <<pc, pending, held, round, loop, toolVars>>

\* /clear-context, confirmed
ClearContext ==
    /\ pc = "prompt"
    /\ Len(history) > 1
    /\ history' = <<history[1]>>
    /\ added' = <<>>
    /\ tr' = NoTr
    /\ ad' = NoAd
    /\ UNCHANGED <<pc, pending, held, round, loop, toolVars>>

\* /r: the reasoner's answer is streamed, then the user prompt is appended, the
\* tool calls are executed and last the assistant message is appended
R1Command ==
    /\ pc = "prompt"
    /\ Len(history) + 1 < MaxLog
    /\ \E u \in Contents, c \in Replies, calls \in CallLists :
         IF calls = <<>>
           THEN /\ history' = history \o <<UserMsg(u), AssistantMsg(c, <<>>)>>
                /\ UNCHANGED <<pc, pending, held>>
           ELSE /\ history' = Append(history, UserMsg(u))
                /\ held' = AssistantMsg(c, calls)
                /\ pending' = calls
                /\ pc' = "r1tools"
    /\ tr' = NoTr
    /\ ad' = NoAd
    /\ UNCHANGED <<round, loop, added, toolVars>>

ConvNext ==
    \/ UserTurn
    \/ AssistantReply
    \/ ToolExec
    \/ ContinuationRound
    \/ Truncate
    \/ Interrupt
    \/ AddCommand
    \/ ClearContext
    \/ R1Command

Init == ConvInit /\ EditIdle /\ FindIdle /\ PathIdle /\ StreamIdle /\ TruncIdle
Next == ConvNext
Spec == Init /\ [][Next]_vars

\* the turn leaves its truncation point.  smart_truncate_history is a total
\* function, so Truncate is enabled exactly when pc = "truncate"
LeavesTruncation == pc = "truncate" /\ pc' = "prompt"


---------------------------------------------------------------------------
(* apply_fuzzy_diff_edit.  A text is a sequence of characters; NL is the    *)
(* newline.  content is the text of the file at the path, exists tells      *)
(* whether the file is there, fuzzy is FUZZY_AVAILABLE, score is the scorer *)
(* of the fuzzy library on the original snippet: it gives every candidate   *)
(* text its score.                                                          *)

NL == "\n"
Chars == {"a", "b", NL}
ScoreValues == {84, 85, 100}

\* the texts of at most n characters
TextsUpTo(n) == UNION {[1..k -> Chars] : k \in 0..n}

OccursAt(c, s, i) == i + Len(s) - 1 <= Len(c) /\ SubSeq(c, i, i + Len(s) - 1) = s

\* str.count(sub): the non-overlapping occurrences, left to right; the empty
\* text occurs len + 1 times
RECURSIVE CountFrom(_, _, _)
CountFrom(c, s, i) ==
    IF i + Len(s) - 1 > Len(c) THEN 0
    ELSE IF OccursAt(c, s, i) THEN 1 + CountFrom(c, s, i + Len(s))
    ELSE CountFrom(c, s, i + 1)
StrCount(c, s) == IF s = <<>> THEN Len(c) + 1 ELSE CountFrom(c, s, 1)

\* str.find(sub): the first position, 0 if there is none
StrFind(c, s) ==
    IF \E i \in 1..(Len(c) + 1) : OccursAt(c, s, i)
      THEN CHOOSE i \in 1..(Len(c) + 1) :
             OccursAt(c, s, i) /\ \A j \in 1..(i - 1) : ~OccursAt(c, s, j)
      ELSE 0

\* str.replace(old, new, 1)
ReplaceFirst(c, old, new) ==
    LET i == StrFind(c, old)
    IN  IF i = 0 THEN c
        ELSE SubSeq(c, 1, i - 1) \o new \o SubSeq(c, i + Len(old), Len(c))

\* str.split('\n')
RECURSIVE Split(_)
Split(c) ==
    IF \E i \in 1..Len(c) : c[i] = NL
      THEN LET i == CHOOSE i \in 1..Len(c) : c[i] = NL /\ \A j \in 1..(i - 1) : c[j] # NL
           IN  <<SubSeq(c, 1, i - 1)>> \o Split(SubSeq(c, i + 1, Len(c)))
      ELSE <<c>>

\* '\n'.join(lines)
RECURSIVE Join(_)
Join(ls) ==
    IF ls = <<>> THEN <<>>
    ELSE IF Len(ls) = 1 THEN ls[1]
    ELSE ls[1] \o <<NL>> \o Join(Tail(ls))

\* the sliding window of chunks:
\* for i in range(len(lines) - original_lines_count + 1)
Choices(c, s) ==
    LET lines == Split(c)
        k == Len(Split(s))
    IN  [i \in 1..(Len(lines) - k + 1) |-> Join(SubSeq(lines, i, i + k - 1))]

ChoiceSet(c, s) == {Choices(c, s)[i] : i \in 1..Len(Choices(c, s))}

\* choices.count(best_match)
ListCount(l, x) == Cardinality({i \in 1..Len(l) : l[i] = x})

\* fuzzy_process.extractOne: a choice of the best score.  The library is not
\* part of the repository: which one of several choices with the same best
\* score it returns is left open.
BestMatches(choices, sc) ==
    {choices[i] : i \in {j \in 1..Len(choices) :
                           \A m \in 1..Len(choices) : sc[choices[m]] <= sc[choices[j]]}}

\* the call, were the exact path taken for any number of occurrences
ApplyEditAnyOccurrence(c, there, avail, s, n, sc, best) ==
    IF ~there
      THEN [stage |-> "read", outcome |-> "file_not_found", best |-> <<>>, updated |-> <<>>]
    ELSE IF StrCount(c, s) >= 1
      THEN [stage |-> "exact", outcome |-> "create", best |-> <<>>,
            updated |-> ReplaceFirst(c, s, n)]
    ELSE IF ~avail
      THEN [stage |-> "exact", outcome |-> "unavailable", best |-> <<>>, updated |-> <<>>]
    ELSE IF Choices(c, s) = <<>>
      THEN [stage |-> "fuzzy", outcome |-> "too_short", best |-> <<>>, updated |-> <<>>]
    ELSE IF sc[best] < MIN_EDIT_SCORE
      THEN [stage |-> "fuzzy", outcome |-> "below_threshold", best |-> best, updated |-> <<>>]
    ELSE IF ListCount(Choices(c, s), best) > 1
      THEN [stage |-> "fuzzy", outcome |-> "ambiguous", best |-> best, updated |-> <<>>]
    ELSE [stage |-> "fuzzy", outcome |-> "create", best |-> best,
          updated |-> ReplaceFirst(c, best, n)]

\* the call, were the best chunk not tested for duplicates
ApplyEditNoAmbiguityTest(c, there, avail, s, n, sc, best) ==
    IF ~there
      THEN [stage |-> "read", outcome |-> "file_not_found", best |-> <<>>, updated |-> <<>>]
    ELSE IF StrCount(c, s) = 1
      THEN [stage |-> "exact", outcome |-> "create", best |-> <<>>,
            updated |-> ReplaceFirst(c, s, n)]
    ELSE IF ~avail
      THEN [stage |-> "exact", outcome |-> "unavailable", best |-> <<>>, updated |-> <<>>]
    ELSE IF Choices(c, s) = <<>>
      THEN [stage |-> "fuzzy", outcome |-> "too_short", best |-> <<>>, updated |-> <<>>]
    ELSE IF sc[best] < MIN_EDIT_SCORE
      THEN [stage |-> "fuzzy", outcome |-> "below_threshold", best |-> best, updated |-> <<>>]
    ELSE [stage |-> "fuzzy", outcome |-> "create", best |-> best,
          updated |-> ReplaceFirst(c, best, n)]

\* the call, were the duplicates tested before the threshold
ApplyEditAmbiguityFirst(c, there, avail, s, n, sc, best) ==
    IF ~there
      THEN [stage |-> "read", outcome |-> "file_not_found", best |-> <<>>, updated |-> <<>>]
    ELSE IF StrCount(c, s) = 1
      THEN [stage |-> "exact", outcome |-> "create", best |-> <<>>,
            updated |-> ReplaceFirst(c, s, n)]
    ELSE IF ~avail
      THEN [stage |-> "exact", outcome |-> "unavailable", best |-> <<>>, updated |-> <<>>]
    ELSE IF Choices(c, s) = <<>>
      THEN [stage |-> "fuzzy", outcome |-> "too_short", best |-> <<>>, updated |-> <<>>]
    ELSE IF ListCount(Choices(c, s), best) > 1
      THEN [stage |-> "fuzzy", outcome |-> "ambiguous", best |-> best, updated |-> <<>>]
    ELSE IF sc[best] < MIN_EDIT_SCORE
      THEN [stage |-> "fuzzy", outcome |-> "below_threshold", best |-> best, updated |-> <<>>]
    ELSE [stage |-> "fuzzy", outcome |-> "create", best |-> best,
          updated |-> ReplaceFirst(c, best, n)]

\* the call, were a best chunk below the threshold replaced all the same
ApplyEditNoThresholdTest(c, there, avail, s, n, sc, best) ==
    IF ~there
      THEN [stage |-> "read", outcome |-> "file_not_found", best |-> <<>>, updated |-> <<>>]
    ELSE IF StrCount(c, s) = 1
      THEN [stage |-> "exact", outcome |-> "create", best |-> <<>>,
            updated |-> ReplaceFirst(c, s, n)]
    ELSE IF ~avail
      THEN [stage |-> "exact", outcome |-> "unavailable", best |-> <<>>, updated |-> <<>>]
    ELSE IF Choices(c, s) = <<>>
      THEN [stage |-> "fuzzy", outcome |-> "too_short", best |-> <<>>, updated |-> <<>>]
    ELSE IF ListCount(Choices(c, s), best) > 1
      THEN [stage |-> "fuzzy", outcome |-> "ambiguous", best |-> best, updated |-> <<>>]
    ELSE [stage |-> "fuzzy", outcome |-> "create", best |-> best,
          updated |-> ReplaceFirst(c, best, n)]

\* The call up to create_file: which path ran (stage), how it ended, the
\* chosen chunk, and the text handed to create_file.
ApplyEdit(c, there, avail, s, n, sc, best) ==
    IF ~there
      THEN [stage |-> "read", outcome |-> "file_not_found", best |-> <<>>, updated |-> <<>>]
    ELSE IF StrCount(c, s) = 1
      THEN [stage |-> "exact", outcome |-> "create", best |-> <<>>,
            updated |-> ReplaceFirst(c, s, n)]
    ELSE IF ~avail
      THEN [stage |-> "exact", outcome |-> "unavailable", best |-> <<>>, updated |-> <<>>]
    ELSE IF Choices(c, s) = <<>>
      THEN [stage |-> "fuzzy", outcome |-> "too_short", best |-> <<>>, updated |-> <<>>]
    ELSE IF sc[best] < MIN_EDIT_SCORE
      THEN [stage |-> "fuzzy", outcome |-> "below_threshold", best |-> best, updated |-> <<>>]
    ELSE IF ListCount(Choices(c, s), best) > 1
      THEN [stage |-> "fuzzy", outcome |-> "ambiguous", best |-> best, updated |-> <<>>]
    ELSE [stage |-> "fuzzy", outcome |-> "create", best |-> best,
          updated |-> ReplaceFirst(c, best, n)]

ConvIdle ==
    /\ history = <<SystemPrompt(400)>>
    /\ pc = "prompt"
    /\ pending = <<>>
    /\ held = NoMsg
    /\ round = 0
    /\ loop = "main_loop"
    /\ tr = NoTr
    /\ ad = NoAd
    /\ added = <<>>

EditInit ==
    /\ exists \in BOOLEAN
    /\ content \in (IF exists THEN TextsUpTo(MaxContent) ELSE {<<>>})
    /\ fuzzy \in BOOLEAN
    /\ snippet \in TextsUpTo(MaxSnippet)
    /\ newSnippet \in {<<>>, <<"c">>}
    /\ score \in [ChoiceSet(content, snippet) -> ScoreValues]
    /\ edit = NoEdit

\* one call of apply_fuzzy_diff_edit.  create_file asks before it overwrites
\* the file (confirm); a refusal raises ValueError and nothing is written.
EditFile ==
    /\ edit.stage = "none"
    /\ \E confirm \in BOOLEAN :
       \E best \in (IF Choices(content, snippet) = <<>> THEN {<<>>}
                    ELSE BestMatches(Choices(content, snippet), score)) :
         LET r == ApplyEdit(content, exists, fuzzy, snippet, newSnippet, score, best)
             done == r.outcome = "create" /\ confirm
         IN  /\ edit' = [stage |-> r.stage,
                         outcome |-> IF r.outcome = "create"
                                       THEN (IF confirm THEN "written" ELSE "cancelled")
                                       ELSE r.outcome,
                         best |-> r.best, updated |-> r.updated, before |-> content]
             /\ content' = IF done THEN r.updated ELSE content
    /\ UNCHANGED <<exists, fuzzy, snippet, newSnippet, score, convVars, findVars,
                   pathVars, streamVars, truncVars>>

InitEdit == ConvIdle /\ EditInit /\ FindIdle /\ PathIdle /\ StreamIdle /\ TruncIdle
EditNext == EditFile
SpecEdit == InitEdit /\ [][EditNext]_vars


---------------------------------------------------------------------------
(* find_best_matching_file.  The directory walk is the sequence of the      *)
(* files it meets, in traversal order (cands).  A file is a record:         *)
(*   excluded : its directory is hidden or excluded, or its name or its     *)
(*              extension is excluded                                       *)
(*   inRoot   : Path(dirpath) == root_dir                                   *)
(*   ratio    : fuzz.ratio of the user's file name and its name             *)
(* The result is the position of the file in the walk, 0 for None.          *)

Ratios == {0, 70, 80, 90}
MinScores == {MIN_FUZZY_SCORE, 90}
Candidates == [excluded : BOOLEAN, inRoot : BOOLEAN, ratio : Ratios]
WalksUpTo(n) == UNION {[1..k -> Candidates] : k \in 0..n}

\* score = fuzz.ratio(...); if Path(dirpath) == root_dir: score += 10
BoostedScore(f) == f.ratio + (IF f.inRoot THEN 10 ELSE 0)

\* the scan, were a later file of the same score to replace the best one
RECURSIVE ScanKeepsLast(_, _, _, _)
ScanKeepsLast(cands, i, best_match, highest_score) ==
    IF i > Len(cands) THEN [best_match |-> best_match, highest_score |-> highest_score]
    ELSE IF cands[i].excluded THEN ScanKeepsLast(cands, i + 1, best_match, highest_score)
    ELSE IF BoostedScore(cands[i]) >= highest_score
           THEN ScanKeepsLast(cands, i + 1, i, BoostedScore(cands[i]))
    ELSE ScanKeepsLast(cands, i + 1, best_match, highest_score)

\* the loops over os.walk: best_match and highest_score after file i - 1
RECURSIVE Scan(_, _, _, _)
Scan(cands, i, best_match, highest_score) ==
    IF i > Len(cands) THEN [best_match |-> best_match, highest_score |-> highest_score]
    ELSE IF cands[i].excluded THEN Scan(cands, i + 1, best_match, highest_score)
    ELSE IF BoostedScore(cands[i]) > highest_score
           THEN Scan(cands, i + 1, i, BoostedScore(cands[i]))
    ELSE Scan(cands, i + 1, best_match, highest_score)

find_best_matching_file(avail, cands, min_score) ==
    IF ~avail THEN 0
    ELSE LET r == Scan(cands, 1, 0, 0)
         IN  IF r.highest_score >= min_score THEN r.best_match ELSE 0

FindInit ==
    /\ finder \in [avail : BOOLEAN, cands : WalksUpTo(MaxFiles), min_score : MinScores,
                    called : {FALSE}, result : {0}]

\* one call of find_best_matching_file
FindFile ==
    /\ ~finder.called
    /\ finder' = [finder EXCEPT !.called = TRUE,
                     !.result = find_best_matching_file(finder.avail, finder.cands,
                                                        finder.min_score)]
    /\ UNCHANGED <<convVars, editVars, pathVars, streamVars, truncVars>>

InitFind == ConvIdle /\ EditIdle /\ FindInit /\ PathIdle /\ StreamIdle /\ TruncIdle
FindNext == FindFile
SpecFind == InitFind /\ [][FindNext]_vars


---------------------------------------------------------------------------
(* Paths.  A location of the file system is the sequence of its names from  *)
(* the root.  base_dir is /p.  The file system holds the files /p/a.py,     *)
(* /p/d/a.py and /etc/a.py and the symbolic link /p/ln to the directory     *)
(* /etc.  A path given by the user or by a tool call is absolute or not     *)
(* (abs) and a sequence of names (parts).  access is the set of the reads   *)
(* and writes of file contents made so far: the operation and the location  *)
(* it reached.                                                              *)

base_dir == <<"p">>
Names == {"..", "a.py", "d", "ln", "etc"}
FileSet == {<<"p", "a.py">>, <<"p", "d", "a.py">>, <<"etc", "a.py">>}
DirSet == {<<>>, <<"p">>, <<"p", "d">>, <<"etc">>}
PartsUpTo(n) == UNION {[1..k -> Names] : k \in 0..n}
Entries7 == {"add", "read_file", "read_multiple_files", "create_file",
             "create_multiple_files", "edit_file"}

\* Path.resolve(): the names are followed from the start location; ".." goes
\* to the parent, the link /p/ln leads to /etc
RECURSIVE ResolveFrom(_, _)
ResolveFrom(at, parts) ==
    IF parts = <<>> THEN at
    ELSE LET x == Head(parts)
             next == IF x = ".."
                       THEN (IF at = <<>> THEN <<>> ELSE SubSeq(at, 1, Len(at) - 1))
                     ELSE IF x = "ln" /\ at = <<"p">> THEN <<"etc">>
                     ELSE Append(at, x)
         IN  ResolveFrom(next, Tail(parts))

\* (base_dir / path).resolve(): an absolute path replaces base_dir
Resolve(abs, parts) == ResolveFrom(IF abs THEN <<>> ELSE base_dir, parts)

\* resolved_p.relative_to(base_resolved) does not raise
Within(at) == Len(at) >= Len(base_dir) /\ SubSeq(at, 1, Len(base_dir)) = base_dir

\* normalize_path: ok is FALSE when ValueError is raised
normalize_path(abs, parts) == [ok |-> Within(Resolve(abs, parts)), at |-> Resolve(abs, parts)]

\* the files os.walk(dir) meets: it does not follow links to directories
FilesBelow(dir) ==
    {f \in FileSet : Len(f) > Len(dir) /\ SubSeq(f, 1, Len(dir)) = dir}

\* is_binary_file: open(file_path, 'rb').read(peek_size) of an existing file
Peeks(at) == IF at \in FileSet THEN {[op |-> "peek", at |-> at]} ELSE {}
\* read_local_file: open(...).read() of an existing file
Reads(at) == IF at \in FileSet THEN {[op |-> "read", at |-> at]} ELSE {}
\* create_file: open(..., "w").write()
Writes(at) == IF at \notin DirSet THEN {[op |-> "write", at |-> at]} ELSE {}

PathInit ==
    /\ request \in [entry : Entries7, abs : BOOLEAN, parts : PartsUpTo(MaxParts),
                     done : {FALSE}]
    /\ access = {}

Serving(entry) == request.entry = entry /\ ~request.done

\* /add <path>: the path is resolved against base_dir and used as it is when
\* it exists; otherwise find_best_matching_file proposes a file of the project
AddPath ==
    /\ Serving("add")
    /\ LET at == Resolve(request.abs, request.parts)
       IN  IF at \in DirSet
             THEN \* add_directory_to_conversation, for each file of the walk:
                  \* is_binary_file(full_path), then normalize_path(full_path),
                  \* then read_local_file(norm_path)
                  access' = access
                    \cup UNION {Peeks(f) : f \in FilesBelow(at)}
                    \cup UNION {Reads(f) :
                                 f \in {g \in FilesBelow(at) : normalize_path(TRUE, g).ok}}
           ELSE IF at \in FileSet
             THEN access' = access \cup Reads(at)
           ELSE \E m \in {<<>>} \cup FilesBelow(base_dir) :
                  access' = access \cup Reads(m)
    /\ request' = [request EXCEPT !.done = TRUE]
    /\ UNCHANGED <<convVars, editVars, findVars, streamVars, truncVars>>

\* read_file: normalize_path, then read_local_file
ReadFileTool ==
    /\ Serving("read_file")
    /\ LET r == normalize_path(request.abs, request.parts)
       IN  access' = IF r.ok THEN access \cup Reads(r.at) ELSE access
    /\ request' = [request EXCEPT !.done = TRUE]
    /\ UNCHANGED <<convVars, editVars, findVars, streamVars, truncVars>>

\* read_multiple_files: the same for each path of the list
ReadMultipleTool ==
    /\ Serving("read_multiple_files")
    /\ LET r == normalize_path(request.abs, request.parts)
       IN  access' = IF r.ok THEN access \cup Reads(r.at) ELSE access
    /\ request' = [request EXCEPT !.done = TRUE]
    /\ UNCHANGED <<convVars, editVars, findVars, streamVars, truncVars>>

\* create_file: normalize_path, the overwrite confirmation, then the write
CreateFileTool ==
    /\ Serving("create_file")
    /\ LET r == normalize_path(request.abs, request.parts)
       IN  \E confirm \in BOOLEAN :
             access' = IF r.ok /\ (r.at \in FileSet => confirm)
                         THEN access \cup Writes(r.at) ELSE access
    /\ request' = [request EXCEPT !.done = TRUE]
    /\ UNCHANGED <<convVars, editVars, findVars, streamVars, truncVars>>

\* create_multiple_files: create_file for each file of the list
CreateMultipleTool ==
    /\ Serving("create_multiple_files")
    /\ LET r == normalize_path(request.abs, request.parts)
       IN  \E confirm \in BOOLEAN :
             access' = IF r.ok /\ (r.at \in FileSet => confirm)
                         THEN access \cup Writes(r.at) ELSE access
    /\ request' = [request EXCEPT !.done = TRUE]
    /\ UNCHANGED <<convVars, editVars, findVars, streamVars, truncVars>>

\* edit_file: ensure_file_in_context (normalize_path, read_local_file), then
\* apply_fuzzy_diff_edit (normalize_path, read_local_file, create_file)
EditFileTool ==
    /\ Serving("edit_file")
    /\ LET r == normalize_path(request.abs, request.parts)
       IN  \E written \in BOOLEAN :
             access' = IF r.ok /\ r.at \in FileSet
                         THEN access \cup Reads(r.at)
                                \cup (IF written THEN Writes(r.at) ELSE {})
                         ELSE access
    /\ request' = [request EXCEPT !.done = TRUE]
    /\ UNCHANGED <<convVars, editVars, findVars, streamVars, truncVars>>

InitPaths == ConvIdle /\ EditIdle /\ FindIdle /\ PathInit /\ StreamIdle /\ TruncIdle
PathNext ==
    \/ AddPath
    \/ ReadFileTool
    \/ ReadMultipleTool
    \/ CreateFileTool
    \/ CreateMultipleTool
    \/ EditFileTool
SpecPaths == InitPaths /\ [][PathNext]_vars


---------------------------------------------------------------------------
(* One whole turn of main_loop (and of MistralAssistant.main_loop), with   *)
(* every continuation round.  Only the start of a turn is bounded, by      *)
(* MaxTurnStart messages in the log; once a turn has started each of its   *)
(* steps is enabled whatever the length of the log, as in the code.  The   *)
(* user types one text, a completion asks for at most one tool call, and   *)
(* the tools do not touch the file contexts.                               *)

TurnCalls == {<<>>, <<"D681PevKs">>}

\* the loop that runs one round too many
MoreRoundsInclusive(r) == r <= max_continuation_rounds
\* while current_round < max_continuation_rounds
MoreRounds(r) == r < max_continuation_rounds

TurnInit ==
    /\ loop \in {"main_loop", "MistralAssistant"}
    /\ history = IF loop = "MistralAssistant"
                   THEN <<SystemPrompt(400), InfoMsg(600), InfoMsg(120)>>
                   ELSE <<SystemPrompt(400)>>
    /\ pc = "prompt"
    /\ pending = <<>>
    /\ held = NoMsg
    /\ round = 0
    /\ tr = NoTr
    /\ ad = NoAd
    /\ added = <<>>

\* user_input = prompt_session.prompt(...), no command;
\* conversation_history.append({"role": "user", "content": user_input})
TurnUser ==
    /\ pc = "prompt"
    /\ Len(history) <= MaxTurnStart
    /\ history' = Append(history, UserMsg(Short))
    /\ pc' = "call"
    /\ tr' = NoTr
    /\ ad' = NoAd
    /\ UNCHANGED <<pending, held, round, loop, added, toolVars>>

\* the initial completion: the stream is consumed to its end, then the
\* assistant message is appended with its valid tool calls
TurnCompletion ==
    /\ pc = "call"
    /\ \E calls \in TurnCalls :
         /\ loop = "MistralAssistant" => calls = <<>>
         /\ history' = Append(history, AssistantMsg(Short, calls))
         /\ pending' = calls
         /\ pc' = IF calls # <<>> THEN "tools" ELSE "truncate"
    /\ round' = 0
    /\ ad' = NoAd
    /\ UNCHANGED <<held, loop, tr, added, toolVars>>

\* execute_function_call_dict returns and the tool message is appended; after
\* the last call the while loop tests current_round
TurnTool ==
    /\ pc = "tools"
    /\ pending # <<>>
    /\ history' = Append(history, ToolMsg("named", Short, Head(pending)))
    /\ pending' = Tail(pending)
    /\ pc' = IF Tail(pending) # <<>> THEN "tools"
             ELSE IF MoreRounds(round) THEN "cont"
             ELSE "truncate"
    /\ ad' = NoAd
    /\ UNCHANGED <<held, round, loop, tr, added, toolVars>>

\* current_round += 1 and the completion of the round
TurnContinuation ==
    /\ pc = "cont"
    /\ round' = round + 1
    /\ \E calls \in TurnCalls :
         /\ history' = Append(history, AssistantMsg(Short, calls))
         /\ pending' = calls
         /\ pc' = IF calls # <<>> THEN "tools" ELSE "truncate"
    /\ ad' = NoAd
    /\ UNCHANGED <<held, loop, tr, added, toolVars>>

InitTurn == TurnInit /\ EditIdle /\ FindIdle /\ PathIdle /\ StreamIdle /\ TruncIdle
TurnNext ==
    \/ TurnUser
    \/ TurnCompletion
    \/ TurnTool
    \/ TurnContinuation
    \/ Truncate
    \/ Interrupt
\* the completion service answers, the tools return and the truncation
\* returns: every step of the turn that the program takes by itself is
\* taken; the user need not type and nobody need interrupt
SpecTurn ==
    /\ InitTurn
    /\ [][TurnNext]_vars
    /\ WF_vars(TurnCompletion)
    /\ WF_vars(TurnTool)
    /\ WF_vars(TurnContinuation)
    /\ WF_pc(LeavesTruncation)



\* The turns whose tool calls are edit_file calls.  As in SpecTurn only the
\* start of a turn is bounded.

\* the initial completion, with none, one or two tool calls
EditCompletion ==
    /\ pc = "call"
    /\ \E calls \in CallLists :
         /\ loop = "MistralAssistant" => calls = <<>>
         /\ history' = Append(history, AssistantMsg(Short, calls))
         /\ pending' = calls
         /\ pc' = IF calls # <<>> THEN "tools" ELSE "truncate"
    /\ round' = 0
    /\ ad' = NoAd
    /\ UNCHANGED <<held, loop, tr, added, toolVars>>

\* execute_function_call_dict for edit_file: ensure_file_in_context for the
\* path of the call, the edit, then the tool message is appended
EditTool ==
    /\ pc = "tools"
    /\ pending # <<>>
    /\ \E e \in {x \in ToolEffects : x.path # ""} :
         LET adds == ~\E i \in 1..Len(history) : HasMarker(history[i], e.path)
             r == add_file_context_smartly(history, history, e.path, e.n,
                                           MAX_CONTEXT_FILES)
         IN  /\ ad' = IF adds THEN AddRecord(ad, history, e.path, e.n, r) ELSE NoAd
             /\ added' = IF adds THEN AddedAfter(added, history, e.path, r) ELSE added
             /\ history' = Append(ensure_file_in_context(history, e.path, e.n).log,
                                  ToolMsg("named", e.out, Head(pending)))
    /\ pending' = Tail(pending)
    /\ pc' = IF Tail(pending) # <<>> THEN "tools"
             ELSE IF MoreRounds(round) THEN "cont"
             ELSE "truncate"
    /\ UNCHANGED <<held, round, loop, tr, toolVars>>

LiveNext ==
    \/ TurnUser
    \/ EditCompletion
    \/ EditTool
    \/ TurnContinuation
    \/ Truncate

\* the completion service answers, the tools return and the truncation
\* returns; the user need not type
SpecLive ==
    /\ InitTurn
    /\ [][LiveNext]_vars
    /\ WF_vars(EditCompletion)
    /\ WF_vars(EditTool)
    /\ WF_vars(TurnContinuation)
    /\ WF_pc(LeavesTruncation)

---------------------------------------------------------------------------
(* The consumer of one completion stream: the loops of main_loop, of       *)
(* try_handle_r1_command and of MistralAssistant.process_streaming_response.*)
(* A fragment is one element of chunk.choices[0].delta.tool_calls; an      *)
(* absent field is the empty text.  The arguments are texts over braces,   *)
(* kept as sequences of characters; of these texts json.loads accepts      *)
(* only "{}".                                                              *)

ArgChars == {"{", "}"}
Fragments ==
    [index : {0, 1}, id : {"", "D681PevKs"}, name : {"", "read_file"},
     arguments : {<<>>} \cup {<<c>> : c \in ArgChars}]

\* {"id": "", "type": "function", "function": {"name": "", "arguments": ""}}
BlankCall == [id |-> "", name |-> "", arguments |-> <<>>]

\* while len(accumulated_tool_calls) <= idx: accumulated_tool_calls.append({...})
RECURSIVE PadTo(_, _)
PadTo(calls, idx) ==
    IF Len(calls) <= idx THEN PadTo(Append(calls, BlankCall), idx) ELSE calls

\* the body of  for tool_call_chunk in chunk.choices[0].delta.tool_calls
Accumulate(calls, f) ==
    LET padded == PadTo(calls, f.index)
        cur == padded[f.index + 1]
    IN  [padded EXCEPT ![f.index + 1] =
            [id |-> IF f.id # "" THEN f.id ELSE cur.id,
             name |-> IF f.name # "" THEN f.name ELSE cur.name,
             arguments |-> cur.arguments \o f.arguments]]

\* json.loads(func_args) raises no JSONDecodeError
JsonLoads(text) == text = <<"{", "}">>

\* the validation that does not look at the arguments
RECURSIVE validate_tool_calls_unparsed(_, _, _)
validate_tool_calls_unparsed(calls, i, valid_calls) ==
    IF i > Len(calls) THEN valid_calls
    ELSE IF calls[i].id = "" THEN validate_tool_calls_unparsed(calls, i + 1, valid_calls)
    ELSE IF calls[i].name = "" THEN validate_tool_calls_unparsed(calls, i + 1, valid_calls)
    ELSE validate_tool_calls_unparsed(calls, i + 1, Append(valid_calls, calls[i]))
\* validate_tool_calls: the loop from position i on
RECURSIVE validate_tool_calls(_, _, _)
validate_tool_calls(calls, i, valid_calls) ==
    IF i > Len(calls) THEN valid_calls
    ELSE IF calls[i].id = "" THEN validate_tool_calls(calls, i + 1, valid_calls)
    ELSE IF calls[i].name = "" THEN validate_tool_calls(calls, i + 1, valid_calls)
    ELSE IF calls[i].arguments # <<>> /\ ~JsonLoads(calls[i].arguments)
           THEN validate_tool_calls(calls, i + 1, valid_calls)
    ELSE validate_tool_calls(calls, i + 1, Append(valid_calls, calls[i]))

StreamInit ==
    /\ stream \in [loop : {"main_loop", "r1", "MistralAssistant"}, stage : {"stream"},
                   seen : {<<>>}, accumulated_tool_calls : {<<>>},
                   valid_tool_calls : {<<>>}, tool_calls : {<<>>}, executed : {<<>>}]

\* one fragment of the stream is consumed.  process_streaming_response of
\* MistralAssistant reads delta.content only
StreamFragment ==
    /\ stream.stage = "stream"
    /\ Len(stream.seen) < MaxFragments
    /\ \E f \in Fragments :
         stream' = [stream EXCEPT
                      !.seen = Append(@, f),
                      !.accumulated_tool_calls =
                          IF stream.loop = "MistralAssistant" THEN @
                          ELSE Accumulate(@, f)]
    /\ UNCHANGED <<convVars, editVars, findVars, pathVars, truncVars>>

\* the stream ends: the calls are validated and, in main_loop and in
\* MistralAssistant.main_loop, the assistant message is appended with the
\* valid calls; try_handle_r1_command appends it after the calls have run
StreamEnd ==
    /\ stream.stage = "stream"
    /\ LET valid == validate_tool_calls(stream.accumulated_tool_calls, 1, <<>>)
       IN  stream' = [stream EXCEPT
                        !.valid_tool_calls = valid,
                        !.tool_calls = IF stream.loop = "r1" THEN <<>> ELSE valid,
                        !.stage = IF valid = <<>> THEN "done" ELSE "tools"]
    /\ UNCHANGED <<convVars, editVars, findVars, pathVars, truncVars>>

\* for tool_call in valid_tool_calls: execute_function_call_dict(tool_call)
StreamExecute ==
    /\ stream.stage = "tools"
    /\ LET k == Len(stream.executed) + 1
           last == k = Len(stream.valid_tool_calls)
       IN  stream' = [stream EXCEPT
                        !.executed = Append(@, stream.valid_tool_calls[k]),
                        !.tool_calls = IF last THEN stream.valid_tool_calls ELSE @,
                        !.stage = IF last THEN "done" ELSE "tools"]
    /\ UNCHANGED <<convVars, editVars, findVars, pathVars, truncVars>>

InitStream == ConvIdle /\ EditIdle /\ FindIdle /\ PathIdle /\ StreamInit /\ TruncIdle
StreamNext ==
    \/ StreamFragment
    \/ StreamEnd
    \/ StreamExecute
SpecStream == InitStream /\ [][StreamNext]_vars


---------------------------------------------------------------------------
(* smart_truncate_history as a function that any caller may apply to a     *)
(* list of its own: history is the module-level conversation_history that  *)
(* get_context_usage_info reads, the argument is drawn from TruncLogs.     *)
(* tr is the last call and trPrev the call before it.                      *)

TruncLogs ==
    {<<SystemPrompt(400)>>,
     <<SystemPrompt(400), InfoMsg(600)>>,
     <<SystemPrompt(400), InfoMsg(600), UserMsg(Short), AssistantMsg(Short, <<>>)>>,
     <<SystemPrompt(400), UserMsg(Long), AssistantMsg(Short, <<>>), UserMsg(Long)>>,
     <<SystemPrompt(400), FileContextMsg("/p/a.py", 100), FileContextMsg("/p/b.py", 100),
       FileContextMsg("/p/c.py", 60000), FileContextMsg("/p/d.py", 200), UserMsg(Short)>>,
     <<SystemPrompt(400), FileContextMsg("/p/d.py", 400), FileContextMsg("/p/a.py", 100),
       FileContextMsg("/p/b.py", 200), FileContextMsg("/p/c.py", 300), UserMsg(Short)>>,
     <<SystemPrompt(400), InfoMsg(600), FileContextMsg("/p/c.py", 60000),
       FileContextMsg("/p/a.py", 100), UserMsg(Short), AssistantMsg(Short, <<>>)>>}

TruncInit ==
    /\ history = <<SystemPrompt(400)>>
    /\ pc = "prompt"
    /\ pending = <<>>
    /\ held = NoMsg
    /\ round = 0
    /\ loop = "main_loop"
    /\ tr = NoTr
    /\ ad = NoAd
    /\ added = <<>>
    /\ trPrev = NoTr

\* smart_truncate_history(h, MAX_HISTORY_MESSAGES) for a list h
TruncateCall ==
    /\ \E h \in TruncLogs :
         tr' = smart_truncate_history(history, h, MAX_HISTORY_MESSAGES)
    /\ trPrev' = tr
    /\ UNCHANGED <<history, pc, pending, held, round, loop, ad, added, editVars, findVars,
                   pathVars, streamVars>>

\* the session goes on: conversation_history.append({"role": "user", ...})
GlobalAppend ==
    /\ Len(history) < MaxGlobalLog
    /\ \E c \in Contents : history' = Append(history, UserMsg(c))
    /\ UNCHANGED <<pc, pending, held, round, loop, tr, ad, added, toolVars>>

InitTruncate == TruncInit /\ EditIdle /\ FindIdle /\ PathIdle /\ StreamIdle
TruncNext ==
    \/ TruncateCall
    \/ GlobalAppend
SpecTruncate == InitTruncate /\ [][TruncNext]_vars


---------------------------------------------------------------------------
(* Properties of the truncation.  tr is the record of the last call of      *)
(* smart_truncate_history; it is reset by the next operation on the log.    *)

Truncated == tr.triggered
KeptPositions == {tr.sys[i] : i \in 1..Len(tr.sys)} \cup {tr.keep[i] : i \in 1..Len(tr.keep)}
HasCalls(m) == m.role = "assistant" /\ m.calls # <<>>
Increasing(ps) == \A i, j \in 1..Len(ps) : i < j => ps[i] < ps[j]
Messages(h, ps) == [i \in 1..Len(ps) |-> h[ps[i]]]

\* the assistant message at position a of h is immediately followed by its
\* tool responses, one per call, and by no further tool message
FollowedByResponses(h, a) ==
    /\ a + Len(h[a].calls) <= Len(h)
    /\ \A k \in 1..Len(h[a].calls) :
         h[a + k].role = "tool" /\ h[a + k].tcid = h[a].calls[k]
    /\ a + Len(h[a].calls) < Len(h) => h[a + Len(h[a].calls) + 1].role # "tool"

GroupsComplete(h) == \A a \in 1..Len(h) : HasCalls(h[a]) => FollowedByResponses(h, a)

\* every tool message is one of the responses that follow an assistant message
ToolsInGroups(h) ==
    \A j \in 1..Len(h) :
       h[j].role = "tool" =>
          \E a \in 1..(j - 1) : HasCalls(h[a]) /\ j <= a + Len(h[a].calls)

\* the input the truncation is specified for: tool calls and tool responses
\* come in complete groups
GroupedLog(h) == GroupsComplete(h) /\ ToolsInGroups(h)

C2_OrderPreserved ==
    Truncated =>
       /\ tr.out = Messages(tr.inp, tr.sys) \o Messages(tr.inp, tr.keep)
       /\ \A i \in 1..Len(tr.sys) : tr.inp[tr.sys[i]].role = "system"
       /\ \A i \in 1..Len(tr.keep) : tr.inp[tr.keep[i]].role # "system"
       /\ Increasing(tr.sys)
       /\ Increasing(tr.keep)

\* every tool message answers a call of an earlier assistant message, and
\* every assistant message with tool calls is followed contiguously by exactly
\* one tool message per call id
LogWellFormed(h) ==
    /\ \A j \in 1..Len(h) :
         h[j].role = "tool" =>
            \E a \in 1..(j - 1) : HasCalls(h[a]) /\ h[j].tcid \in CallIdSet(h[a])
    /\ GroupsComplete(h)

\* C3: at every turn boundary the log is well formed: tool messages answer
\* earlier assistant messages, and tool calls are followed by their responses.
C3_LogWellFormedAtTurnBoundary == pc = "prompt" => LogWellFormed(history)

\* C4: the first element of the log is always the system prompt of the start.
C4_FirstIsSystemPrompt ==
    /\ Len(history) >= 1
    /\ history[1].role = "system" /\ history[1].kind = "prompt"
    /\ \A i \in 2..Len(history) : history[i].kind # "prompt"

\* a truncation that dropped messages of a log holding a file context
C4_Witness ==
    /\ Truncated /\ history = tr.out
    /\ Len(tr.out) < Len(tr.inp)
    /\ \E i \in 2..Len(tr.inp) : IsFileContext(tr.inp[i])
    /\ history[1].kind = "prompt"

\* C5: a log whose estimate is below warning_ratio * max_tokens and that has at
\* most max_messages messages is returned unchanged.
C5_NoOpBelowPressure ==
    (/\ tr.inp # <<>>
     /\ estimate_token_usage(tr.inp) * 10 < ESTIMATED_MAX_TOKENS * CONTEXT_WARNING_THRESHOLD
     /\ Len(tr.inp) <= MAX_HISTORY_MESSAGES)
    => (tr.out = tr.inp /\ ~Truncated /\ (pc = "prompt" => history = tr.inp))

\* the truncation step ran on a log such as [system, user, assistant] with a
\* healthy budget
C5_Witness ==
    /\ tr.inp # <<>> /\ ~Truncated
    /\ Len(tr.inp) >= 3
    /\ \E i \in 1..Len(tr.inp) : tr.inp[i].role = "assistant"
    /\ history = tr.inp

\* C6 as claimed: the estimate of a truncated log never exceeds the target.
C6_ResultWithinTarget ==
    Truncated => estimate_token_usage(tr.out) <= tr.target

\* C6 amended: the estimate of a truncated log does not exceed the target
\* unless the retained system messages alone do; then nothing else is kept.
C6_ResultWithinTargetOrSystem ==
    Truncated =>
       LET system_tokens == estimate_token_usage(Messages(tr.inp, tr.sys))
       IN  /\ system_tokens <= tr.target => estimate_token_usage(tr.out) <= tr.target
           /\ system_tokens >= tr.target => tr.keep = <<>>

\* a truncation under a normal system prompt that had to drop a message
C6_Witness ==
    /\ Truncated
    /\ estimate_token_usage(Messages(tr.inp, tr.sys)) < tr.target
    /\ estimate_token_usage(tr.inp) > tr.target
    /\ tr.keep # <<>>
    /\ Len(tr.out) < Len(tr.inp)

\* C7: critical iff tokens >= critical_ratio * max, approaching iff
\* warning_ratio * max <= tokens < critical_ratio * max; the target of a
\* truncation is 60% of max when critical, 70% when approaching, else 80%.
C7_TargetByState ==
    Truncated =>
       tr.target =
          (IF tr.tokens * 10 >= ESTIMATED_MAX_TOKENS * AGGRESSIVE_TRUNCATION_THRESHOLD
             THEN (ESTIMATED_MAX_TOKENS * 6) \div 10
           ELSE IF tr.tokens * 10 >= ESTIMATED_MAX_TOKENS * CONTEXT_WARNING_THRESHOLD
             THEN (ESTIMATED_MAX_TOKENS * 7) \div 10
           ELSE (ESTIMATED_MAX_TOKENS * 8) \div 10)


---------------------------------------------------------------------------
(* Properties of the file contexts.  ad is the record of the last call of   *)
(* add_file_context_smartly; it is reset by the next operation on the log.  *)

Added == ad.called
\* the file-context entries of the path p in the log h
Entries(h, p) == {i \in 1..Len(h) : IsFileContext(h[i]) /\ h[i].path = p}
FileEntries(h) == {i \in 1..Len(h) : IsFileContext(h[i])}
RemoveAt(h, i) == SubSeq(h, 1, i - 1) \o SubSeq(h, i + 1, Len(h))
\* len(content) // 4 exceeds 80% of the window
TooLarge(n) == (n \div 4) * 10 > ESTIMATED_MAX_TOKENS * 8
\* the last message is an assistant message with tool calls
CallsLast(h) == h # <<>> /\ HasCalls(h[Len(h)])
\* ... and one of its calls has no tool response anywhere in the log
UnansweredLast(h) ==
    /\ CallsLast(h)
    /\ \E id \in CallIdSet(h[Len(h)]) :
         ~\E j \in 1..Len(h) : h[j].role = "tool" /\ h[j].tcid = id
\* the call went as far as the insertion
Inserted == Added /\ ~TooLarge(ad.n) /\ ~CallsLast(ad.inp)

\* C13 as claimed: after two calls in a row with the same path and content
\* the log holds exactly one file-context entry for the path.
C13_TwiceLeavesOneEntry ==
    (Added /\ ad.twice) => Cardinality(Entries(ad.out, ad.p)) = 1

\* C13 amended: after two such calls the log holds exactly one entry for the
\* path unless the calls are rejected for size or deferred; then the log is
\* left as it was before them.
C13_TwiceLeavesOneEntryIfInserted ==
    (Added /\ ad.twice) =>
       /\ Inserted => Cardinality(Entries(ad.out, ad.p)) = 1
       /\ ~Inserted => ad.out = ad.inp

\* the second of two calls replaced the entry of the first, next to the entry
\* of another file
C13_Witness ==
    /\ Added /\ ad.twice /\ Inserted
    /\ Cardinality(Entries(ad.inp, ad.p)) = 1
    /\ Cardinality(Entries(ad.out, ad.p)) = 1
    /\ Cardinality(FileEntries(ad.out)) > 1

\* C14: the log never holds two file-context entries for one path; a call
\* that inserts an entry for a path that has one leaves the new entry only.
C14_OneEntryPerPath ==
    /\ \A p \in Paths : Cardinality(Entries(history, p)) <= 1
    /\ (Inserted /\ Entries(ad.inp, ad.p) # {}) =>
          /\ Cardinality(Entries(ad.out, ad.p)) = 1
          /\ \A i \in Entries(ad.out, ad.p) : ad.out[i] = FileContextMsg(ad.p, ad.n)

\* a file was added again with another text and replaced its entry
C14_Witness ==
    /\ Inserted
    /\ \E i \in Entries(ad.inp, ad.p) : ad.inp[i] # FileContextMsg(ad.p, ad.n)
    /\ history = ad.out
    /\ Cardinality(Entries(history, ad.p)) = 1

\* C15: with max_context_files entries in the log and the approaching_limit
\* flag read at the start of the call set, the insertion of an entry for a
\* new path removes exactly one entry, one of the largest content, and
\* leaves max_context_files entries.
C15_LargestEvictedWhenApproaching ==
    (/\ Inserted /\ ad.approaching
     /\ Cardinality(FileEntries(ad.inp)) = MAX_CONTEXT_FILES
     /\ Entries(ad.inp, ad.p) = {})
    => /\ \E i \in FileEntries(ad.inp) :
            /\ \A j \in FileEntries(ad.inp) : ad.inp[j].clen <= ad.inp[i].clen
            /\ SelectSeq(ad.out, LAMBDA m : m # FileContextMsg(ad.p, ad.n))
                  = RemoveAt(ad.inp, i)
       /\ Cardinality(FileEntries(ad.out)) = MAX_CONTEXT_FILES

\* the largest entry was evicted although an older, smaller one was there
C15_Witness ==
    /\ Inserted /\ ad.approaching
    /\ Cardinality(FileEntries(ad.inp)) = MAX_CONTEXT_FILES
    /\ Entries(ad.inp, ad.p) = {}
    /\ \E i, j \in FileEntries(ad.inp) :
         /\ i < j /\ ad.inp[i].clen < ad.inp[j].clen
         /\ \E k \in FileEntries(ad.out) : ad.out[k] = ad.inp[i]
         /\ ~\E k \in FileEntries(ad.out) : ad.out[k] = ad.inp[j]

\* C16: the call returns false exactly when len(content) // 4 exceeds 80% of
\* ESTIMATED_MAX_TOKENS, and then leaves the log as it was; in every other
\* case, insertion or deferral, it returns true.
C16_FalseIffTooLarge ==
    Added =>
       /\ ad.ok = ~TooLarge(ad.n)
       /\ ~ad.ok => ad.out = ad.inp

\* a file of 52801 estimated tokens was rejected
C16_Witness ==
    /\ Added /\ ~ad.ok /\ ad.n \div 4 = (ESTIMATED_MAX_TOKENS * 8) \div 10 + 1
    /\ history = ad.inp /\ Len(history) > 1

\* a file of exactly 52800 estimated tokens was inserted
C16_WitnessAtLimit ==
    /\ Added /\ ad.ok /\ ad.n \div 4 = (ESTIMATED_MAX_TOKENS * 8) \div 10
    /\ Entries(ad.out, ad.p) # {}

\* C17 as claimed: when the last message is an assistant message with tool
\* calls that are not all answered in the log, the call returns true and
\* leaves the log unchanged.
C17_DeferralReturnsTrue ==
    (Added /\ UnansweredLast(ad.inp)) => (ad.ok /\ ad.out = ad.inp)

\* C17 amended: in that case the call leaves the log unchanged, and returns
\* true unless the content is rejected for its size, which is tested first.
C17_DeferralLeavesLog ==
    (Added /\ UnansweredLast(ad.inp)) =>
       /\ ad.out = ad.inp
       /\ ad.ok = ~TooLarge(ad.n)

\* a call was deferred on a log that holds an entry for the path and
\* max_context_files entries in all
C17_Witness ==
    /\ Added /\ UnansweredLast(ad.inp) /\ ad.ok
    /\ ad.out = ad.inp
    /\ Entries(ad.inp, ad.p) # {}
    /\ Cardinality(FileEntries(ad.inp)) = MAX_CONTEXT_FILES


---------------------------------------------------------------------------
(* Properties of the file finder.                                           *)

Eligible(cands) == {i \in 1..Len(cands) : ~cands[i].excluded}

\* C12: with a fuzzy library, find_best_matching_file returns the first file
\* of the walk, among those not excluded, whose boosted score (ratio, plus 10
\* in the root directory) is the highest of all files not excluded, if that
\* score is at least min_score; it returns None if every such file scores
\* below min_score, also when there are files.
C12_FirstBestAboveThreshold ==
    (finder.called /\ finder.avail) =>
       LET cands == finder.cands
           el == Eligible(cands)
           Top(i) == \A j \in el : BoostedScore(cands[j]) <= BoostedScore(cands[i])
       IN  /\ (\A i \in el : BoostedScore(cands[i]) < finder.min_score)
                => finder.result = 0
           /\ \A i \in el :
                (/\ Top(i)
                 /\ \A j \in el : j < i => ~Top(j)
                 /\ BoostedScore(cands[i]) >= finder.min_score)
                => finder.result = i

\* the call returned the first of two files with the same best boosted score,
\* one of them in the root directory, after an excluded file that scores more
C12_Witness ==
    /\ finder.called /\ finder.avail /\ finder.result # 0
    /\ \E j \in Eligible(finder.cands) :
         /\ j > finder.result
         /\ BoostedScore(finder.cands[j]) = BoostedScore(finder.cands[finder.result])
         /\ finder.cands[j].inRoot # finder.cands[finder.result].inRoot
    /\ \E x \in 1..Len(finder.cands) :
         /\ finder.cands[x].excluded
         /\ BoostedScore(finder.cands[x]) > BoostedScore(finder.cands[finder.result])

\* the call returned None although a file that is not excluded exists
C12_WitnessNone ==
    /\ finder.called /\ finder.avail /\ finder.result = 0
    /\ Eligible(finder.cands) # {}


---------------------------------------------------------------------------
(* Properties of the paths.                                                 *)

\* C18: no read or write of file contents reaches a location outside
\* base_dir, whichever entry point (the /add command for a file or a
\* directory, read_file, read_multiple_files, create_file,
\* create_multiple_files, edit_file) was given the path.
C18_NoAccessOutsideBase == \A a \in access : Within(a.at)


---------------------------------------------------------------------------
(* Properties of the snippet edit.  edit records the call: the path that    *)
(* ran, how it ended, the chosen chunk, the text handed to create_file and  *)
(* the text of the file before the call.                                    *)

Called == edit.stage # "none"
Splice(c, i, n, new) == SubSeq(c, 1, i - 1) \o new \o SubSeq(c, i + n, Len(c))
NoReplacement == content = edit.before /\ edit.updated = <<>>

C9_DuplicateBestIsAmbiguous ==
    (/\ Called /\ edit.stage = "fuzzy" /\ edit.outcome # "too_short"
     /\ ListCount(Choices(edit.before, snippet), edit.best) > 1)
    => (edit.outcome = "ambiguous" /\ NoReplacement)

\* C9 amended: such a chunk ends in the ambiguity error when its score reaches
\* MIN_EDIT_SCORE and in the below-threshold error otherwise; nothing is
\* replaced in either case.
C9_DuplicateBestFails ==
    (/\ Called /\ edit.stage = "fuzzy" /\ edit.outcome # "too_short"
     /\ ListCount(Choices(edit.before, snippet), edit.best) > 1)
    => /\ score[edit.best] >= MIN_EDIT_SCORE => edit.outcome = "ambiguous"
       /\ score[edit.best] < MIN_EDIT_SCORE => edit.outcome = "below_threshold"
       /\ NoReplacement

\* the ambiguity error was raised
C9_Witness ==
    /\ Called /\ edit.outcome = "ambiguous"
    /\ ListCount(Choices(edit.before, snippet), edit.best) > 1
    /\ score[edit.best] >= MIN_EDIT_SCORE

\* C10: on the fuzzy path the choices are the len(lines) - k + 1 windows of k
\* consecutive lines of the file; without a window the call fails with the
\* too-short error; a best score below MIN_EDIT_SCORE (85) fails with the
\* below-threshold error, also when the best chunk is duplicated: the
\* threshold is tested before the ambiguity.
C10_WindowsAndThreshold ==
    (Called /\ edit.stage = "fuzzy") =>
       LET lines == Split(edit.before)
           k == Len(Split(snippet))
           choices == Choices(edit.before, snippet)
       IN  /\ Len(choices) = IF Len(lines) - k + 1 > 0 THEN Len(lines) - k + 1 ELSE 0
           /\ \A i \in 1..Len(choices) : Split(choices[i]) = SubSeq(lines, i, i + k - 1)
           /\ (edit.outcome = "too_short") = (choices = <<>>)
           /\ choices # <<>> =>
                /\ edit.best \in ChoiceSet(edit.before, snippet)
                /\ \A w \in ChoiceSet(edit.before, snippet) : score[w] <= score[edit.best]
                /\ (edit.outcome = "below_threshold") = (score[edit.best] < MIN_EDIT_SCORE)
           /\ edit.outcome \in {"too_short", "below_threshold"} => NoReplacement
           /\ MIN_EDIT_SCORE = 85

\* the below-threshold error was raised for a best chunk that is duplicated
C10_Witness ==
    /\ Called /\ edit.stage = "fuzzy" /\ edit.outcome = "below_threshold"
    /\ ListCount(Choices(edit.before, snippet), edit.best) > 1

\* the too-short error was raised: the snippet has more lines than the file
C10_WitnessTooShort ==
    /\ Called /\ edit.outcome = "too_short"
    /\ Len(Split(snippet)) > Len(Split(edit.before))

\* C11: a call changes the file only on one of the two success paths (the
\* snippet occurs exactly once; or the fuzzy path found a best chunk that is
\* unique among the choices and scores at least MIN_EDIT_SCORE), and then the
\* file holds the one text handed to create_file; a call that fails (no fuzzy
\* library, file too short, score below the threshold, ambiguous chunk, file
\* not found, overwrite refused) leaves the file as it was.
C11_WriteOnlyOnSuccess ==
    Called =>
       LET choices == Choices(edit.before, snippet)
           exact == exists /\ StrCount(edit.before, snippet) = 1
           fuzzyOk == /\ exists /\ ~exact /\ fuzzy /\ choices # <<>>
                      /\ score[edit.best] >= MIN_EDIT_SCORE
                      /\ ListCount(choices, edit.best) = 1
       IN  /\ edit.outcome # "written" => content = edit.before
           /\ edit.outcome = "written" =>
                /\ exact \/ fuzzyOk
                /\ exact => content = ReplaceFirst(edit.before, snippet, newSnippet)
                /\ fuzzyOk => content = ReplaceFirst(edit.before, edit.best, newSnippet)
           /\ ~(exact \/ fuzzyOk) =>
                /\ edit.outcome \in {"unavailable", "too_short", "below_threshold",
                                     "ambiguous", "file_not_found"}
                /\ content = edit.before

\* a call failed for want of a fuzzy library on a file that holds text and
\* the snippet twice
C11_Witness ==
    /\ Called /\ edit.outcome = "unavailable"
    /\ StrCount(edit.before, snippet) > 1 /\ snippet # <<>>
    /\ content = edit.before

\* a fuzzy edit was written
C11_WitnessWritten ==
    /\ Called /\ edit.stage = "fuzzy" /\ edit.outcome = "written"
    /\ content # edit.before


---------------------------------------------------------------------------
(* Properties of the turn.                                                  *)

InTurn(p) == p \in {"call", "tools", "cont", "truncate"}
RECURSIVE LastUser(_, _)
LastUser(h, i) ==
    IF i = 0 THEN 0 ELSE IF h[i].role = "user" THEN i ELSE LastUser(h, i - 1)
\* the assistant messages after the last user message: the completions of
\* the turn in progress
CompletionsOfTurn(h) ==
    Cardinality({i \in (LastUser(h, Len(h)) + 1)..Len(h) : h[i].role = "assistant"})
\* a turn has been made on the log: it holds a message of the user
TurnMade(h) == \E i \in 1..Len(h) : h[i].role = "user"
\* the rounds and the completions of the turn in progress are within the limit
RoundsBounded ==
    InTurn(pc) => /\ round <= max_continuation_rounds
                  /\ CompletionsOfTurn(history) <= max_continuation_rounds + 1

\* C19 as stated: every turn ends; a turn makes the initial completion and at
\* most 5 continuation rounds, whatever the completions ask for; when the
\* program is back at the prompt no tool call of the turn is left to run and
\* the log is the one the truncation step of the turn returned.
C19_TurnEndsAfterTruncation ==
    /\ []RoundsBounded
    /\ []((pc = "prompt" /\ TurnMade(history))
             => pending = <<>> /\ tr # NoTr /\ history = tr.out)
    /\ (InTurn(pc) ~> pc = "prompt")

\* C19 amended: every turn ends; a turn makes the initial completion and at
\* most 5 continuation rounds, whatever the completions ask for; when the
\* program is back at the prompt no tool call of the turn is left to run and
\* the log is the one the truncation step of the turn returned, or, when an
\* interrupt or an error abandoned the turn, no truncation was made.
C19_TurnEnds ==
    /\ []RoundsBounded
    /\ [](pc = "prompt" => pending = <<>> /\ (tr = NoTr \/ history = tr.out))
    /\ (InTurn(pc) ~> pc = "prompt")

\* every completion of the turn asked for a tool call: after the fifth round
\* the tools have run and the turn goes on to its truncation
C19_Witness ==
    /\ pc = "truncate"
    /\ round = max_continuation_rounds
    /\ CompletionsOfTurn(history) = max_continuation_rounds + 1
    /\ history[Len(history)].role = "tool"


---------------------------------------------------------------------------
(* Properties of the interrupt.  The assistant message is appended in one  *)
(* step, after the stream has been consumed to its end; the interrupt      *)
(* itself appends nothing.                                                 *)

\* every call id of every assistant message has a tool response further on
AllCallsAnswered(h) ==
    \A a \in 1..Len(h) :
       \A k \in 1..Len(h[a].calls) :
          \E j \in (a + 1)..Len(h) : h[j].role = "tool" /\ h[j].tcid = h[a].calls[k]

\* C20: an interrupt at any point of a turn in flight leaves the log whole: no
\* part of an assistant message is appended, and no assistant message with
\* tool calls is left without a tool response for one of its call ids.
C20_InterruptLeavesLogWhole ==
    [][Interrupt => (history' = history /\ AllCallsAnswered(history'))]_vars


---------------------------------------------------------------------------
(* Properties of the stream.                                                *)

\* a valid tool call: an id, a function name, and arguments that are empty
\* or well-formed
ValidCall(c) ==
    /\ c.id # ""
    /\ c.name # ""
    /\ c.arguments = <<>> \/ JsonLoads(c.arguments)

\* C21: the tool calls attached to the assistant message are valid; the
\* validation returns exactly the valid calls of the accumulated ones, in
\* their order; and the calls attached and the calls executed are calls of
\* its result, in its order.
C21_OnlyValidCallsAttached ==
    /\ \A k \in 1..Len(stream.tool_calls) : ValidCall(stream.tool_calls[k])
    /\ stream.stage \in {"tools", "done"} =>
         /\ stream.valid_tool_calls = SelectSeq(stream.accumulated_tool_calls, ValidCall)
         /\ stream.tool_calls \in {<<>>, stream.valid_tool_calls}
         /\ stream.executed =
              SubSeq(stream.valid_tool_calls, 1, Len(stream.executed))
    /\ stream.stage = "done" =>
         /\ stream.tool_calls = stream.valid_tool_calls
         /\ stream.executed = stream.valid_tool_calls

\* of two accumulated calls the first, whose arguments do not parse, is
\* dropped and the second is attached and executed
C21_Witness ==
    /\ stream.stage = "done"
    /\ Len(stream.accumulated_tool_calls) = 2
    /\ stream.accumulated_tool_calls[1].id # ""
    /\ stream.accumulated_tool_calls[1].name # ""
    /\ ~ValidCall(stream.accumulated_tool_calls[1])
    /\ stream.tool_calls = <<stream.accumulated_tool_calls[2]>>
    /\ stream.executed = stream.tool_calls

\* the fragments delivered for index i, in arrival order
ForIndex(seen, i) == SelectSeq(seen, LAMBDA f : f.index = i)
\* the last non-empty value of a field among the fragments, "" if none
RECURSIVE LastGiven(_, _)
LastGiven(values, k) ==
    IF k = 0 THEN "" ELSE IF values[k] # "" THEN values[k] ELSE LastGiven(values, k - 1)
RECURSIVE Concat(_)
Concat(texts) == IF texts = <<>> THEN <<>> ELSE Head(texts) \o Concat(Tail(texts))
\* the call that the fragments delivered for index i describe
Reassembled(seen, i) ==
    LET fs == ForIndex(seen, i)
    IN  [id |-> LastGiven([k \in 1..Len(fs) |-> fs[k].id], Len(fs)),
         name |-> LastGiven([k \in 1..Len(fs) |-> fs[k].name], Len(fs)),
         arguments |-> Concat([k \in 1..Len(fs) |-> fs[k].arguments])]
IndexesSeen(seen) == {seen[k].index : k \in 1..Len(seen)}

\* C22: in every loop that consumes the stream, what is handed to the
\* validation holds, for each index i of the fragments delivered, the id and
\* the function name the fragments for i carried and the concatenation of
\* their argument texts in arrival order.
C22_ReassembledByIndex ==
    stream.stage \in {"tools", "done"} =>
       \A i \in IndexesSeen(stream.seen) :
          /\ Len(stream.accumulated_tool_calls) > i
          /\ stream.accumulated_tool_calls[i + 1] = Reassembled(stream.seen, i)


---------------------------------------------------------------------------
(* Properties of the truncation as a function.                              *)

C24_AtMostMaxMessages == tr.inp # <<>> => Len(tr.out) <= MAX_HISTORY_MESSAGES


\* the file-context entries of h the truncation chooses from: the system
\* messages after the first that carry the marker
FileContextPositions(h) ==
    {p \in 1..Len(h) : IsFileContext(h[p]) /\ \E q \in 1..(p - 1) : IsSystem(h[q])}
\* the ranking: smaller content first, and of two of a size the more recent,
\* which stands later in the log
RanksBefore(h, p, q) ==
    \/ h[p].clen < h[q].clen
    \/ h[p].clen = h[q].clen /\ p > q
KeptFileContexts == {tr.sys[k] : k \in 2..Len(tr.sys)}

OtherPositions(h) == {p \in 1..Len(h) : ~IsSystem(h[p])}
KeptOthers == {tr.keep[k] : k \in 1..Len(tr.keep)}

\* C26: when the truncation is triggered, the messages other than system
\* messages that it keeps are the most recent ones: if one is kept, every
\* later one is kept, so nothing older than a message that did not fit is
\* kept.
C26_KeptIsSuffix ==
    Truncated =>
       /\ KeptOthers \subseteq OtherPositions(tr.inp)
       /\ \A p \in KeptOthers :
            \A q \in OtherPositions(tr.inp) : q > p => q \in KeptOthers

\* a long message did not fit and an older short one, which would fit, was
\* dropped with it
C26_Witness ==
    /\ Truncated
    /\ KeptOthers # {}
    /\ \E p, q \in OtherPositions(tr.inp) \ KeptOthers :
          /\ p < q
          /\ \A k \in KeptOthers : q < k
          /\ StrTokens(tr.inp[q]) > 1000
          /\ StrTokens(tr.inp[p]) < 100


---------------------------------------------------------------------------
(* Properties of the eviction.                                              *)

\* the step is a call of add_file_context_smartly that inserts an entry for
\* a new path into a log that holds max_context_files entries, with the
\* approaching_limit flag not set
AddsAtLimitWithHeadroom ==
    /\ ad'.called /\ ad'.inp = history /\ ad'.out = history'
    /\ ad'.ok /\ ~Deferred(history)
    /\ ~ad'.approaching
    /\ Cardinality(FileEntries(history)) = MAX_CONTEXT_FILES
    /\ Entries(history, ad'.p) = {}

\* C27: such a call evicts the entry that was inserted earliest, and no
\* other, whatever adds and truncations came before.
C27_OldestEvicted ==
    [][AddsAtLimitWithHeadroom =>
          /\ Entries(history', Head(added)) = {}
          /\ \A k \in 2..Len(added) : Entries(history', added[k]) # {}]_vars


---------------------------------------------------------------------------
(* Properties of the deferral.                                              *)

\* the last call of add_file_context_smartly, for the path p, was deferred
\* and reported success
DeferredFor(p) == ad.called /\ ad.p = p /\ ad.ok /\ Deferred(ad.inp)
\* every tool call of every assistant message of the log has its response
Answered == AllCallsAnswered(history)

\* C28: a deferred add is made again once the tool calls have their
\* responses: when an add for a path was deferred and the tool calls are
\* answered later, an entry for the path is in the log later.
C28_DeferredAddIsRetried ==
    \A p \in Paths :
       (DeferredFor(p) /\ <>(pc = "prompt" /\ Answered))
          ~> (Entries(history, p) # {})

\* an edit_file call that was not the first of its group added the entry
EntryAddedByLaterCall ==
    /\ ad.called /\ ad.ok /\ ~Deferred(ad.inp)
    /\ Entries(history, ad.p) # {}
    /\ pc \in {"tools", "cont", "truncate"}



---------------------------------------------------------------------------
(* Properties of the insertion.                                             *)

\* the positions of the log h that hold the entry the last call inserted
NewEntryAt(h) == {k \in 1..Len(h) : h[k] = FileContextMsg(ad.p, ad.n)}
Range(h) == {h[k] : k \in 1..Len(h)}
\* position k of h lies between an assistant message with tool calls and one
\* of the tool responses of its group
SplitsGroup(h, k) ==
    \E a \in 1..(k - 1), j \in (k + 1)..Len(h) :
       /\ HasCalls(h[a])
       /\ h[j].role = "tool" /\ h[j].tcid \in CallIdSet(h[a])
       /\ \A b \in (a + 1)..(j - 1) : h[b].role \in {"tool", "system"}

\* no file-context entry of the log stands inside a group of tool calls
NoEntryInsideGroup ==
    \A k \in 1..Len(history) : IsFileContext(history[k]) => ~SplitsGroup(history, k)

\* C29: a call that inserts puts the new entry immediately before the last
\* user message of the log, or at the end of a log without user message; the
\* other messages of the result are messages of the input in their order,
\* none but file-context entries missing; and the new entry does not stand
\* between an assistant message with tool calls and its tool responses.
C29_InsertedBeforeLastUser ==
    /\ NoEntryInsideGroup
    /\ Inserted =>
       /\ Cardinality(NewEntryAt(ad.out)) = 1
       /\ \A k \in NewEntryAt(ad.out) :
            /\ IF \E u \in 1..Len(ad.out) : ad.out[u].role = "user"
                 THEN /\ k < Len(ad.out)
                      /\ ad.out[k + 1].role = "user"
                      /\ \A u \in (k + 2)..Len(ad.out) : ad.out[u].role # "user"
                 ELSE k = Len(ad.out)
            /\ RemoveAt(ad.out, k) =
                 SelectSeq(ad.inp,
                           LAMBDA m : ~IsFileContext(m) \/ m \in Range(RemoveAt(ad.out, k)))
            /\ ~SplitsGroup(ad.out, k)

\* the second call of a group of two inserted the entry before the user
\* message of the turn, with the first tool response already in the log and
\* an older user message before it
C29_Witness ==
    /\ Inserted
    /\ ad.inp[Len(ad.inp)].role = "tool"
    /\ \E k \in NewEntryAt(ad.out) :
         /\ ad.out[k + 1].role = "user"
         /\ \E u \in 1..(k - 1) : ad.out[u].role = "user"

\* the entry was appended to a log without user message
C29_WitnessAtEnd ==
    /\ Inserted
    /\ \A u \in 1..Len(ad.out) : ad.out[u].role # "user"
    /\ NewEntryAt(ad.out) = {Len(ad.out)}
    /\ Len(ad.out) > 2



---------------------------------------------------------------------------
(* Properties of the fuzzy replacement.                                     *)

\* the position in the text c of the first character of line i
LineStart(c, i) ==
    IF i = 1 THEN 1 ELSE Len(Join(SubSeq(Split(c), 1, i - 1))) + 2

\* the windows of the file that hold the chosen chunk
BestWindows == {i \in 1..Len(Choices(edit.before, snippet)) :
                  Choices(edit.before, snippet)[i] = edit.best}

\* the fuzzy path reached create_file
FuzzyReplaced == Called /\ edit.stage = "fuzzy" /\ edit.outcome \in {"written", "cancelled"}

C30_EarlierOccurrence ==
    /\ FuzzyReplaced
    /\ \E i \in BestWindows :
         /\ i > 1
         /\ StrFind(edit.before, edit.best) < LineStart(edit.before, i)

=============================================================================
